---- MODULE Spec2Model ----
(***************************************************************************)
(* Chronic-Disease-Prevention-Tracker: the data store's history, and the   *)
(* metrics, alert, risk and intervention engines that are evaluated on it. *)
(*                                                                         *)
(* Units.  The code works on floats; the model keeps integers:             *)
(*   bmi and sleep_hours are in tenths (bmi 18.5 is 185, sleep 7.5 is 75), *)
(*   risk scores (probabilities) are in hundredths (0.7 is 70),            *)
(*   dates and the wall clock are day numbers,                             *)
(*   every other field is in the unit of the input form.                   *)
(* A mean is kept as the pair <<sum, count>> and two means are compared by *)
(* cross multiplication, so that no rounding is introduced.                *)
(***************************************************************************)
EXTENDS Integers, Sequences, FiniteSets, TLC

VARIABLES
    health_data,   \* HealthDataManager.health_data: the history, a sequence of records
    data_file,     \* content of health_data.json: NoFile or the list of serialised records
    user_goals,    \* HealthDataManager.user_goals: a sequence of goal dicts
    goals_file,    \* content of user_goals.json: NoFile or the list of serialised goals
    active_interventions,  \* HealthDataManager.active_interventions: a sequence of dicts
    interventions_file,    \* content of active_interventions.json
    health_data_b, \* the history held by a second HealthDataManager on the same files
    intervention_library,  \* InterventionEngine.intervention_library: the catalog
    wall_clock,    \* datetime.now(), a day number
    form_data,     \* the dict a submitted input form holds
    models,        \* RiskAssessmentModel.models and .scalers, fitted at construction
    result         \* what the last call returned: [op |-> name, value |-> ...]

vars == <<health_data, data_file, user_goals, goals_file, active_interventions,
          interventions_file, health_data_b, intervention_library, wall_clock,
          form_data, models, result>>

\* what the managers hold, in memory and on disk
store_vars == <<health_data, data_file, user_goals, goals_file, active_interventions,
                interventions_file, health_data_b>>

tracking_vars == <<user_goals, goals_file, active_interventions, interventions_file>>

\* a file of the working directory: absent, or holding a JSON list
NoFile == [exists |-> FALSE, parses |-> FALSE, content |-> <<>>]

File(content) == [exists |-> TRUE, parses |-> TRUE, content |-> content]

\* a file that open(..., 'w') has truncated and json.dump has not finished:
\* json.load raises on it
Broken == [exists |-> TRUE, parses |-> FALSE, content |-> <<>>]

\* how a save ends: the file is written, open() raises, or json.dump raises
\* after open() has truncated the file
IoOutcomes == {"written", "open_raises", "dump_raises"}

NoResult == [op |-> "none"]

----------------------------------------------------------------------------
(* Generic helpers                                                          *)

RECURSIVE SumSeq(_)
SumSeq(s) == IF s = <<>> THEN 0 ELSE Head(s) + SumSeq(Tail(s))

Max2(a, b) == IF a > b THEN a ELSE b
Min2(a, b) == IF a < b THEN a ELSE b
Abs(a) == IF a < 0 THEN 0 - a ELSE a

\* Series.get(key, default): the value of the column, the default when the
\* record has no such column.
Get(row, key, default) == IF key \in DOMAIN row THEN row[key] ELSE default

\* DataFrame.iloc[-1]
Last(s) == s[Len(s)]

\* DataFrame.tail(n) / DataFrame.head(n)
TailN(s, n) == IF Len(s) <= n THEN s ELSE SubSeq(s, Len(s) - n + 1, Len(s))
HeadN(s, n) == IF Len(s) <= n THEN s ELSE SubSeq(s, 1, n)

\* The column of a history as a sequence of values.
Column(data, key) == [i \in 1..Len(data) |-> data[i][key]]

----------------------------------------------------------------------------
(* Metrics engine: DataProcessor.calculate_health_score                     *)

bmi_term_swapped(row) ==
    LET bmi == Get(row, "bmi", 250)
    IN  IF bmi > 300 THEN -10
        ELSE IF bmi > 250 THEN -20
        ELSE IF bmi < 185 THEN -15
        ELSE 0

bmi_term(row) ==
    LET bmi == Get(row, "bmi", 250)
    IN  IF bmi > 300 THEN -20
        ELSE IF bmi > 250 THEN -10
        ELSE IF bmi < 185 THEN -15
        ELSE 0

bp_term(row) ==
    LET systolic  == Get(row, "systolic_bp", 120)
        diastolic == Get(row, "diastolic_bp", 80)
    IN  IF systolic > 140 \/ diastolic > 90 THEN -25
        ELSE IF systolic > 130 \/ diastolic > 80 THEN -15
        ELSE 0

glucose_term(row) ==
    LET glucose == Get(row, "glucose_fasting", 90)
    IN  IF glucose > 126 THEN -30
        ELSE IF glucose > 100 THEN -15
        ELSE 0

cholesterol_term(row) ==
    LET total_chol == Get(row, "total_cholesterol", 200)
        hdl_chol   == Get(row, "hdl_cholesterol", 50)
    IN  (IF total_chol > 240 THEN -15 ELSE 0) + (IF hdl_chol < 40 THEN -10 ELSE 0)

exercise_term_strict(row) ==
    LET exercise == Get(row, "exercise_minutes_per_week", 150)
    IN  IF exercise > 150 THEN 5
        ELSE IF exercise < 75 THEN -10
        ELSE 0

exercise_term(row) ==
    LET exercise == Get(row, "exercise_minutes_per_week", 150)
    IN  IF exercise >= 150 THEN 5
        ELSE IF exercise < 75 THEN -10
        ELSE 0

sleep_term(row) ==
    LET sleep == Get(row, "sleep_hours", 70)
    IN  IF sleep >= 70 /\ sleep <= 80 THEN 5
        ELSE IF sleep < 60 \/ sleep > 90 THEN -10
        ELSE 0

stress_term(row) ==
    LET stress == Get(row, "stress_level", 5)
    IN  IF stress <= 3 THEN 5
        ELSE IF stress >= 8 THEN -15
        ELSE 0

smoking_term(row) ==
    LET smoking == Get(row, "smoking_status", 0)
    IN  IF smoking = 1 THEN -20 ELSE 0

\* the running score right before the final clamp
raw_health_score(row) ==
    100 + bmi_term(row) + bp_term(row) + glucose_term(row)
        + cholesterol_term(row) + exercise_term(row) + sleep_term(row)
        + stress_term(row) + smoking_term(row)

\* return max(0, min(100, score))
clamp_score_no_floor(score) == Min2(100, score)

clamp_score(score) == Max2(0, Min2(100, score))

calculate_health_score(data) ==
    IF Len(data) = 0 THEN 0
    ELSE clamp_score(raw_health_score(Last(data)))

----------------------------------------------------------------------------
(* Ordering by date: DataFrame.sort_values('date').  On frames of this size *)
(* the sort keeps rows of equal date in their order (insertion sort).       *)

RECURSIVE InsertByDate(_, _)
InsertByDate(sorted, row) ==
    IF sorted = <<>> THEN <<row>>
    ELSE IF Last(sorted).date <= row.date THEN Append(sorted, row)
    ELSE Append(InsertByDate(SubSeq(sorted, 1, Len(sorted) - 1), row), Last(sorted))

RECURSIVE sort_values_date(_)
sort_values_date(data) ==
    IF data = <<>> THEN <<>>
    ELSE InsertByDate(sort_values_date(SubSeq(data, 1, Len(data) - 1)), Last(data))

\* the columns of a frame (every row has them)
Columns(data) == IF Len(data) = 0 THEN {} ELSE DOMAIN data[1]

\* Series.mean() as <<sum, count>>
Mean(values) == <<SumSeq(values), Len(values)>>
MeanGreater(a, b) == a[1] * b[2] > b[1] * a[2]

----------------------------------------------------------------------------
(* Metrics engine: DataProcessor.detect_trends                              *)

EmptyDict == <<>>

TrendMetrics == {"bmi", "systolic_bp", "diastolic_bp", "glucose_fasting",
                 "total_cholesterol"}

\* abs(recent_avg - historical_avg) / historical_avg * 100 as the fraction
\* <<numerator, denominator>>; a zero historical mean makes the float
\* division yield inf or nan
trend_magnitude(recent_avg, historical_avg) ==
    IF historical_avg[1] = 0 THEN <<"inf_or_nan">>
    ELSE << Abs(recent_avg[1] * historical_avg[2] - historical_avg[1] * recent_avg[2]) * 100,
            historical_avg[1] * recent_avg[2] >>

metric_trend_first_five(data, metric) ==
    LET values         == Column(data, metric)
        recent_avg     == Mean(TailN(values, 5))
        historical_avg == Mean(HeadN(values, 5))
    IN  [direction      |-> IF MeanGreater(recent_avg, historical_avg)
                            THEN "increasing" ELSE "decreasing",
         magnitude      |-> trend_magnitude(recent_avg, historical_avg),
         recent_avg     |-> recent_avg,
         historical_avg |-> historical_avg]

metric_trend(data, metric) ==
    LET values         == Column(data, metric)
        recent_avg     == Mean(TailN(values, 5))
        historical_avg == IF Len(data) >= 10 THEN Mean(HeadN(values, 5)) ELSE Mean(values)
    IN  [direction      |-> IF MeanGreater(recent_avg, historical_avg)
                            THEN "increasing" ELSE "decreasing",
         magnitude      |-> trend_magnitude(recent_avg, historical_avg),
         recent_avg     |-> recent_avg,
         historical_avg |-> historical_avg]

\* if data.empty or len(data) < 2: return {}
too_short_for_trends_only_empty(data) == Len(data) = 0

too_short_for_trends(data) == Len(data) = 0 \/ Len(data) < 2

\* data = data.sort_values('date') binds a new frame, and the rolling-mean
\* columns are written to that one: the frame of the caller is as it was
frame_after_detect_trends(data) == data

detect_trends(data) ==
    IF too_short_for_trends(data) THEN EmptyDict
    ELSE LET sorted == sort_values_date(data)
         IN  [metric \in TrendMetrics \cap Columns(sorted) |-> metric_trend(sorted, metric)]

----------------------------------------------------------------------------
(* Alert engine: AlertSystem.  A threshold table is the sequence of its     *)
(* <<metric, threshold>> entries in the order the dictionary lists them.    *)
(* Every frame the alert engine is given has the columns of the input form  *)
(* with a value in every row, so pd.notna holds of every value read.        *)

RECURSIVE Flatten(_)
Flatten(ss) == IF ss = <<>> THEN <<>> ELSE Head(ss) \o Flatten(Tail(ss))

critical_thresholds ==
    << <<"systolic_bp", 180>>, <<"diastolic_bp", 120>>, <<"glucose_fasting", 250>>,
       <<"total_cholesterol", 300>>, <<"bmi", 400>>, <<"resting_heart_rate", 120>> >>

warning_thresholds ==
    << <<"systolic_bp", 140>>, <<"diastolic_bp", 90>>, <<"glucose_fasting", 126>>,
       <<"total_cholesterol", 240>>, <<"bmi", 300>>, <<"resting_heart_rate", 100>>,
       <<"hdl_cholesterol_low", 40>>, <<"triglycerides", 200>> >>

info_thresholds ==
    << <<"systolic_bp", 130>>, <<"diastolic_bp", 80>>, <<"glucose_fasting", 100>>,
       <<"total_cholesterol", 200>>, <<"bmi", 250>>,
       <<"exercise_minutes_per_week_low", 150>>, <<"sleep_hours_low", 60>>,
       <<"sleep_hours_high", 90>>, <<"stress_level_high", 7>> >>

rapid_increase_thresholds ==
    << <<"bmi", 20>>, <<"systolic_bp", 20>>, <<"glucose_fasting", 30>>,
       <<"total_cholesterol", 50>> >>

\* the message is kept as <<fixed text, formatted value>>
value_alert(severity, text, recommendation, metric, value, threshold) ==
    [severity |-> severity, message |-> <<metric, text, value>>,
     recommendation |-> recommendation, metric |-> metric, value |-> value,
     threshold |-> threshold]

critical_alert_strict(row, metric, threshold) ==
    IF metric \in DOMAIN row /\ row[metric] > threshold
    THEN << value_alert("Critical", "is critically high",
                        "Seek immediate medical attention", metric, row[metric], threshold) >>
    ELSE <<>>

critical_alert(row, metric, threshold) ==
    IF metric \in DOMAIN row /\ row[metric] >= threshold
    THEN << value_alert("Critical", "is critically high",
                        "Seek immediate medical attention", metric, row[metric], threshold) >>
    ELSE <<>>

warning_alert(row, metric, threshold) ==
    IF metric \notin DOMAIN row THEN <<>>
    ELSE IF metric = "hdl_cholesterol_low"
    THEN IF row[metric] <= threshold
         THEN << value_alert("Warning", "HDL cholesterol is low",
                             "Consider lifestyle changes to increase HDL",
                             "hdl_cholesterol", row[metric], threshold) >>
         ELSE <<>>
    ELSE IF row[metric] >= threshold
    THEN << value_alert("Warning", "is elevated",
                        "Monitor closely and consider intervention",
                        metric, row[metric], threshold) >>
    ELSE <<>>

\* metric.replace('_low', '')
strip_low(metric) ==
    IF metric = "exercise_minutes_per_week_low" THEN "exercise_minutes_per_week"
    ELSE IF metric = "sleep_hours_low" THEN "sleep_hours"
    ELSE metric

info_alert(row, metric, threshold) ==
    IF metric \notin DOMAIN row THEN <<>>
    ELSE IF metric \in {"exercise_minutes_per_week_low", "sleep_hours_low"}
    THEN IF row[metric] <= threshold
         THEN << value_alert("Info", "is below recommended",
                             "Consider increasing to meet recommended levels",
                             strip_low(metric), row[metric], threshold) >>
         ELSE <<>>
    ELSE IF metric = "sleep_hours_high"
    THEN IF row[metric] >= threshold
         THEN << value_alert("Info", "Sleep hours are above recommended",
                             "Excessive sleep may indicate underlying health issues",
                             "sleep_hours", row[metric], threshold) >>
         ELSE <<>>
    ELSE IF metric = "stress_level_high"
    THEN IF row[metric] >= threshold
         THEN << value_alert("Info", "Stress level is high",
                             "Consider stress management techniques",
                             "stress_level", row[metric], threshold) >>
         ELSE <<>>
    ELSE IF row[metric] >= threshold
    THEN << value_alert("Info", "is above optimal",
                        "Consider lifestyle modifications", metric, row[metric], threshold) >>
    ELSE <<>>

check_value_alerts_highest_tier_only(data) ==
    LET latest_data == Last(data)
        critical == Flatten([i \in 1..Len(critical_thresholds) |->
                        critical_alert(latest_data, critical_thresholds[i][1],
                                       critical_thresholds[i][2])])
        warning == Flatten([i \in 1..Len(warning_thresholds) |->
                        warning_alert(latest_data, warning_thresholds[i][1],
                                      warning_thresholds[i][2])])
        info == Flatten([i \in 1..Len(info_thresholds) |->
                        info_alert(latest_data, info_thresholds[i][1],
                                   info_thresholds[i][2])])
        Metrics(alerts) == {alerts[i].metric : i \in DOMAIN alerts}
    IN  critical
        \o SelectSeq(warning, LAMBDA alert : alert.metric \notin Metrics(critical))
        \o SelectSeq(info, LAMBDA alert : alert.metric \notin Metrics(critical \o warning))

check_value_alerts(data) ==
    LET latest_data == Last(data)
    IN  Flatten([i \in 1..Len(critical_thresholds) |->
                    critical_alert(latest_data, critical_thresholds[i][1],
                                   critical_thresholds[i][2])])
        \o Flatten([i \in 1..Len(warning_thresholds) |->
                    warning_alert(latest_data, warning_thresholds[i][1],
                                  warning_thresholds[i][2])])
        \o Flatten([i \in 1..Len(info_thresholds) |->
                    info_alert(latest_data, info_thresholds[i][1],
                               info_thresholds[i][2])])

\* health_data['date'].max()
RECURSIVE MaxDate(_)
MaxDate(data) ==
    IF Len(data) = 1 THEN data[1].date
    ELSE Max2(Last(data).date, MaxDate(SubSeq(data, 1, Len(data) - 1)))

IsRecent_inclusive(data, row) == row.date >= MaxDate(data) - 30

\* health_data['date'] > health_data['date'].max() - timedelta(days=30)
IsRecent(data, row) == row.date > MaxDate(data) - 30

rapid_increase_alert_without_metric(data, metric, threshold) ==
    IF metric \notin Columns(data) THEN <<>>
    ELSE LET recent_data == SelectSeq(data, LAMBDA row : IsRecent(data, row))
         IN  IF Len(recent_data) >= 2
             THEN LET value_change == Last(recent_data)[metric] - recent_data[1][metric]
                  IN  IF value_change >= threshold
                      THEN << [severity |-> "Warning",
                               message |-> <<metric, "has increased rapidly", value_change>>,
                               recommendation |-> "Monitor closely and consider medical evaluation",
                               change |-> value_change,
                               threshold |-> threshold] >>
                      ELSE <<>>
             ELSE <<>>

rapid_increase_alert(data, metric, threshold) ==
    IF metric \notin Columns(data) THEN <<>>
    ELSE LET recent_data == SelectSeq(data, LAMBDA row : IsRecent(data, row))
         IN  IF Len(recent_data) >= 2
             THEN LET value_change == Last(recent_data)[metric] - recent_data[1][metric]
                  IN  IF value_change >= threshold
                      THEN << [severity |-> "Warning",
                               message |-> <<metric, "has increased rapidly", value_change>>,
                               recommendation |-> "Monitor closely and consider medical evaluation",
                               metric |-> metric, change |-> value_change,
                               threshold |-> threshold] >>
                      ELSE <<>>
             ELSE <<>>

declining_exercise_alert(data) ==
    LET exercise_data == Column(data, "exercise_minutes_per_week")
    IN  IF Len(exercise_data) >= 2
        THEN LET recent_exercise     == Mean(TailN(exercise_data, 5))
                 historical_exercise == Mean(HeadN(exercise_data, 5))
             IN  \* historical > 0 and recent / historical < 0.5
                 IF historical_exercise[1] > 0
                    /\ 2 * recent_exercise[1] * historical_exercise[2]
                         < historical_exercise[1] * recent_exercise[2]
                 THEN << [severity |-> "Info",
                          message |-> <<"Exercise activity has declined significantly">>,
                          recommendation |-> "Consider factors affecting exercise routine and gradually increase activity",
                          metric |-> "exercise_minutes_per_week",
                          change |-> <<recent_exercise, historical_exercise>>] >>
                 ELSE <<>>
        ELSE <<>>

check_trend_alerts(data) ==
    IF Len(data) < 2 THEN <<>>
    ELSE Flatten([i \in 1..Len(rapid_increase_thresholds) |->
                     rapid_increase_alert(data, rapid_increase_thresholds[i][1],
                                          rapid_increase_thresholds[i][2])])
         \o declining_exercise_alert(data)

required_metrics == <<"systolic_bp", "diastolic_bp", "glucose_fasting", "bmi">>

check_pattern_alerts(data, now) ==
    LET days_since_last  == now - MaxDate(data)
        measurement_gaps == [i \in 1..(Len(data) - 1) |-> data[i + 1].date - data[i].date]
        avg_gap          == Mean(measurement_gaps)
        missing_metrics  == SelectSeq(required_metrics,
                                      LAMBDA metric : metric \notin Columns(data))
    IN  (IF days_since_last > 30
         THEN << [severity |-> "Info",
                  message |-> <<"No health measurements recorded in days", days_since_last>>,
                  recommendation |-> "Regular monitoring is important for tracking progress",
                  metric |-> "measurement_frequency",
                  days_since_last |-> days_since_last] >>
         ELSE <<>>)
        \o (IF measurement_gaps # <<>> /\ avg_gap[1] > 14 * avg_gap[2]
            THEN << [severity |-> "Info",
                     message |-> <<"Measurements are infrequent", avg_gap>>,
                     recommendation |-> "Consider more frequent monitoring for better trend analysis",
                     metric |-> "measurement_consistency",
                     average_gap |-> avg_gap] >>
            ELSE <<>>)
        \o (IF missing_metrics # <<>>
            THEN << [severity |-> "Info",
                     message |-> <<"Missing key health metrics", missing_metrics>>,
                     recommendation |-> "Consider adding these metrics for comprehensive health monitoring",
                     metric |-> "missing_metrics",
                     missing |-> missing_metrics] >>
            ELSE <<>>)

\* (std / mean)^2 of a series with the sample standard deviation (ddof = 1),
\* as the fraction <<n * (n * sum(x^2) - sum(x)^2), (n - 1) * sum(x)^2>>
cv_squared(values) ==
    LET n  == Len(values)
        s  == SumSeq(values)
        sq == SumSeq([i \in 1..n |-> values[i] * values[i]])
    IN  << n * (n * sq - s * s), (n - 1) * s * s >>

check_adherence_alerts(data) ==
    IF Len(data) >= 5
    THEN LET systolic_cv2 == cv_squared(Column(data, "systolic_bp"))
         IN  \* systolic_cv > 0.2, both sides squared (the mean is positive)
             IF 25 * systolic_cv2[1] > systolic_cv2[2]
             THEN << [severity |-> "Info",
                      message |-> <<"Blood pressure readings show high variability">>,
                      recommendation |-> "Ensure consistent measurement conditions and medication adherence",
                      metric |-> "bp_variability",
                      coefficient_of_variation |-> systolic_cv2] >>
             ELSE <<>>
    ELSE <<>>

\* a sort on the severity string itself: Critical < Info < Warning
severity_order_alphabetical(severity) ==
    IF severity = "Critical" THEN 0
    ELSE IF severity = "Info" THEN 1
    ELSE IF severity = "Warning" THEN 2
    ELSE 3

\* severity_order.get(x['severity'], 3)
severity_order(severity) ==
    IF severity = "Critical" THEN 0
    ELSE IF severity = "Warning" THEN 1
    ELSE IF severity = "Info" THEN 2
    ELSE 3

\* list.sort(key = ...) is stable: alerts of equal key keep their order
sort_by_severity(alerts) ==
    Flatten([k \in 1..4 |->
                SelectSeq(alerts, LAMBDA a : severity_order(a.severity) = k - 1)])

check_alerts(data, now) ==
    IF Len(data) = 0 THEN <<>>
    ELSE sort_by_severity(check_value_alerts(data) \o check_trend_alerts(data)
                          \o check_pattern_alerts(data, now)
                          \o check_adherence_alerts(data))

----------------------------------------------------------------------------
(* Metrics engine: DataProcessor.get_health_insights                        *)

insight(type, text, value, recommendation) ==
    [type |-> type, message |-> <<text, value>>, recommendation |-> recommendation]

get_health_insights(data) ==
    IF Len(data) = 0 THEN <<>>
    ELSE LET latest_data == Last(data)
             bmi       == Get(latest_data, "bmi", 250)
             systolic  == Get(latest_data, "systolic_bp", 120)
             diastolic == Get(latest_data, "diastolic_bp", 80)
             glucose   == Get(latest_data, "glucose_fasting", 90)
         IN  (IF bmi > 300
              THEN << insight("warning", "Your BMI indicates obesity", bmi,
                              "Focus on balanced diet and regular exercise.") >>
              ELSE IF bmi > 250
              THEN << insight("info", "Your BMI indicates overweight status", bmi,
                              "Consider lifestyle modifications to reach healthy weight.") >>
              ELSE <<>>)
             \o (IF systolic > 140 \/ diastolic > 90
                 THEN << insight("warning", "Your blood pressure is in hypertensive range",
                                 <<systolic, diastolic>>,
                                 "Consult healthcare provider immediately.") >>
                 ELSE IF systolic > 130 \/ diastolic > 80
                 THEN << insight("info", "Your blood pressure is elevated",
                                 <<systolic, diastolic>>,
                                 "Monitor closely and consider lifestyle changes.") >>
                 ELSE <<>>)
             \o (IF glucose > 126
                 THEN << insight("warning", "Your fasting glucose is in diabetic range", glucose,
                                 "Consult healthcare provider for diabetes management.") >>
                 ELSE IF glucose > 100
                 THEN << insight("info", "Your fasting glucose is in pre-diabetic range", glucose,
                                 "Consider diet and exercise modifications.") >>
                 ELSE <<>>)

----------------------------------------------------------------------------
(* Risk engine: RiskAssessmentModel                                         *)

\* the keys of self.models, in insertion order
conditions == <<"pre_diabetes", "hypertension", "metabolic_syndrome">>
Conditions == {conditions[i] : i \in 1..Len(conditions)}

feature_columns ==
    <<"age", "bmi", "systolic_bp", "diastolic_bp", "glucose_fasting",
      "total_cholesterol", "hdl_cholesterol", "ldl_cholesterol", "triglycerides",
      "waist_circumference", "exercise_minutes_per_week", "sleep_hours",
      "stress_level", "smoking_status", "alcohol_consumption">>

feature_defaults ==
    [age |-> 40, bmi |-> 250, systolic_bp |-> 120, diastolic_bp |-> 80,
     glucose_fasting |-> 90, total_cholesterol |-> 200, hdl_cholesterol |-> 50,
     ldl_cholesterol |-> 100, triglycerides |-> 150, waist_circumference |-> 80,
     exercise_minutes_per_week |-> 150, sleep_hours |-> 70, stress_level |-> 5,
     smoking_status |-> 0, alcohol_consumption |-> 0]

prepare_features(data_row) ==
    [i \in 1..Len(feature_columns) |->
        Get(data_row, feature_columns[i], feature_defaults[feature_columns[i]])]

\* The fitted scaler and forest of a condition are not modelled tree by tree:
\* `forest' is what they answer for the feature vector at hand, a probability
\* in hundredths, or Fails when transform or predict_proba raises.
Fails == -1

empty_risk_scores_missing_key == [pre_diabetes |-> 0, hypertension |-> 0]

empty_risk_scores == [pre_diabetes |-> 0, hypertension |-> 0, metabolic_syndrome |-> 0]

calculate_risk_scores_abort_all(data, forest) ==
    IF Len(data) = 0 THEN empty_risk_scores
    ELSE LET features == prepare_features(Last(data))
         IN  IF \E condition \in Conditions : forest[condition][features] = Fails
             THEN empty_risk_scores
             ELSE [condition \in Conditions |-> forest[condition][features]]

\* the try / except is inside the loop over the conditions
calculate_risk_scores(data, forest) ==
    IF Len(data) = 0 THEN empty_risk_scores
    ELSE LET features == prepare_features(Last(data))
         IN  [condition \in Conditions |->
                 IF forest[condition][features] = Fails THEN 0
                 ELSE forest[condition][features]]

\* contribution scores in hundredths
analyze_risk_factors(data) ==
    IF Len(data) = 0 THEN EmptyDict
    ELSE LET latest_data == Last(data)
             bmi        == Get(latest_data, "bmi", 250)
             systolic   == Get(latest_data, "systolic_bp", 120)
             diastolic  == Get(latest_data, "diastolic_bp", 80)
             glucose    == Get(latest_data, "glucose_fasting", 90)
             total_chol == Get(latest_data, "total_cholesterol", 200)
             hdl_chol   == Get(latest_data, "hdl_cholesterol", 50)
             exercise   == Get(latest_data, "exercise_minutes_per_week", 150)
             smoking    == Get(latest_data, "smoking_status", 0)
             factors ==
                 (IF bmi > 300 THEN {<<"Obesity", 80>>}
                  ELSE IF bmi > 250 THEN {<<"Overweight", 50>>} ELSE {})
                 \cup (IF systolic > 140 \/ diastolic > 90
                       THEN {<<"High Blood Pressure", 90>>}
                       ELSE IF systolic > 130 \/ diastolic > 80
                       THEN {<<"Elevated Blood Pressure", 60>>} ELSE {})
                 \cup (IF glucose > 126 THEN {<<"High Glucose", 90>>}
                       ELSE IF glucose > 100 THEN {<<"Elevated Glucose", 60>>} ELSE {})
                 \cup (IF total_chol > 240 THEN {<<"High Cholesterol", 70>>} ELSE {})
                 \cup (IF hdl_chol < 40 THEN {<<"Low HDL", 60>>} ELSE {})
                 \cup (IF exercise < 75 THEN {<<"Insufficient Exercise", 50>>} ELSE {})
                 \cup (IF smoking = 1 THEN {<<"Smoking", 80>>} ELSE {})
         IN  [label \in {f[1] : f \in factors} |->
                 (CHOOSE f \in factors : f[1] = label)[2]]

----------------------------------------------------------------------------
(* Intervention catalog: InterventionEngine._build_intervention_library     *)

dietary_interventions ==
    << [title |-> "Mediterranean Diet Adoption",
         priority |-> "High",
         evidence_level |-> "Strong",
         description |-> "Adopt a Mediterranean-style diet rich in fruits, vegetables, whole grains, lean proteins, and healthy fats.",
         expected_outcome |-> "Reduce cardiovascular risk by 20-30%, improve insulin sensitivity",
         action_steps |-> <<
            "Increase olive oil consumption to 2-3 tablespoons daily",
            "Eat fish 2-3 times per week",
            "Consume 5-7 servings of fruits and vegetables daily",
            "Choose whole grains over refined carbohydrates",
            "Include nuts and seeds in daily diet" >>,
         target_conditions |-> << "pre_diabetes", "hypertension", "metabolic_syndrome" >>,
         duration |-> "3-6 months"],
       [title |-> "DASH Diet Implementation",
         priority |-> "High",
         evidence_level |-> "Strong",
         description |-> "Follow Dietary Approaches to Stop Hypertension (DASH) diet to reduce blood pressure.",
         expected_outcome |-> "Reduce systolic BP by 8-14 mmHg",
         action_steps |-> <<
            "Limit sodium intake to less than 2,300mg daily",
            "Increase potassium-rich foods (bananas, spinach, beans)",
            "Consume 4-5 servings of fruits and vegetables daily",
            "Choose low-fat dairy products",
            "Limit red meat and processed foods" >>,
         target_conditions |-> << "hypertension" >>,
         duration |-> "2-4 weeks to see initial results"],
       [title |-> "Carbohydrate Counting",
         priority |-> "Medium",
         evidence_level |-> "Moderate",
         description |-> "Learn to count carbohydrates to better manage blood glucose levels.",
         expected_outcome |-> "Improve glucose control and reduce HbA1c by 0.5-1%",
         action_steps |-> <<
            "Track carbohydrate intake for 2 weeks",
            "Aim for 45-60g carbs per meal",
            "Choose complex carbohydrates over simple sugars",
            "Use measuring cups and food scales initially",
            "Keep a food diary" >>,
         target_conditions |-> << "pre_diabetes" >>,
         duration |-> "4-8 weeks"] >>

exercise_interventions ==
    << [title |-> "Progressive Aerobic Exercise Program",
         priority |-> "High",
         evidence_level |-> "Strong",
         description |-> "Structured aerobic exercise program starting with low intensity and gradually increasing.",
         expected_outcome |-> "Reduce cardiovascular risk, improve insulin sensitivity, lower blood pressure",
         action_steps |-> <<
            "Start with 10-15 minutes of walking daily",
            "Gradually increase to 30 minutes, 5 days per week",
            "Include activities like swimming, cycling, or dancing",
            "Monitor heart rate during exercise",
            "Track progress weekly" >>,
         target_conditions |-> << "pre_diabetes", "hypertension", "metabolic_syndrome" >>,
         duration |-> "8-12 weeks"],
       [title |-> "Resistance Training Program",
         priority |-> "Medium",
         evidence_level |-> "Moderate",
         description |-> "Add resistance training to improve muscle mass and metabolic health.",
         expected_outcome |-> "Increase muscle mass, improve glucose metabolism, enhance bone density",
         action_steps |-> <<
            "Perform resistance exercises 2-3 times per week",
            "Start with bodyweight exercises (push-ups, squats)",
            "Progress to light weights or resistance bands",
            "Focus on major muscle groups",
            "Allow 48 hours rest between sessions" >>,
         target_conditions |-> << "pre_diabetes", "metabolic_syndrome" >>,
         duration |-> "6-8 weeks"],
       [title |-> "High-Intensity Interval Training (HIIT)",
         priority |-> "Medium",
         evidence_level |-> "Moderate",
         description |-> "Short bursts of high-intensity exercise followed by recovery periods.",
         expected_outcome |-> "Improve cardiovascular fitness, enhance insulin sensitivity",
         action_steps |-> <<
            "Start with 2-3 HIIT sessions per week",
            "Alternate 30 seconds high intensity with 90 seconds recovery",
            "Total session duration: 15-20 minutes",
            "Include exercises like burpees, mountain climbers, jumping jacks",
            "Gradually increase intensity and duration" >>,
         target_conditions |-> << "pre_diabetes", "metabolic_syndrome" >>,
         duration |-> "4-6 weeks"] >>

lifestyle_interventions ==
    << [title |-> "Stress Management Program",
         priority |-> "High",
         evidence_level |-> "Moderate",
         description |-> "Implement stress reduction techniques to improve overall health outcomes.",
         expected_outcome |-> "Reduce cortisol levels, improve sleep quality, lower blood pressure",
         action_steps |-> <<
            "Practice mindfulness meditation 10-15 minutes daily",
            "Try deep breathing exercises during stressful moments",
            "Engage in relaxing activities (yoga, tai chi, reading)",
            "Maintain social connections and support networks",
            "Consider professional counseling if needed" >>,
         target_conditions |-> << "hypertension", "metabolic_syndrome" >>,
         duration |-> "6-8 weeks"],
       [title |-> "Sleep Hygiene Improvement",
         priority |-> "Medium",
         evidence_level |-> "Moderate",
         description |-> "Optimize sleep quality and duration to support metabolic health.",
         expected_outcome |-> "Improve insulin sensitivity, reduce appetite hormones, lower stress",
         action_steps |-> <<
            "Maintain consistent sleep schedule (7-9 hours nightly)",
            "Create a relaxing bedtime routine",
            "Limit screen time 1 hour before bed",
            "Keep bedroom cool, dark, and quiet",
            "Avoid caffeine and large meals before bedtime" >>,
         target_conditions |-> << "pre_diabetes", "metabolic_syndrome" >>,
         duration |-> "2-4 weeks"],
       [title |-> "Smoking Cessation Program",
         priority |-> "Critical",
         evidence_level |-> "Strong",
         description |-> "Comprehensive smoking cessation program with behavioral and pharmacological support.",
         expected_outcome |-> "Dramatically reduce cardiovascular risk, improve lung function",
         action_steps |-> <<
            "Set a quit date within 2 weeks",
            "Remove smoking triggers from environment",
            "Consider nicotine replacement therapy",
            "Join a smoking cessation support group",
            "Develop alternative coping strategies" >>,
         target_conditions |-> << "hypertension", "metabolic_syndrome" >>,
         duration |-> "12-16 weeks"] >>

monitoring_interventions ==
    << [title |-> "Home Blood Pressure Monitoring",
         priority |-> "High",
         evidence_level |-> "Strong",
         description |-> "Regular home blood pressure monitoring to track hypertension management.",
         expected_outcome |-> "Better blood pressure control, early detection of changes",
         action_steps |-> <<
            "Measure blood pressure twice daily at same times",
            "Use validated home blood pressure monitor",
            "Record readings in log or app",
            "Report concerning readings to healthcare provider",
            "Bring logs to medical appointments" >>,
         target_conditions |-> << "hypertension" >>,
         duration |-> "Ongoing"],
       [title |-> "Glucose Self-Monitoring",
         priority |-> "Medium",
         evidence_level |-> "Moderate",
         description |-> "Regular blood glucose monitoring to track diabetes prevention efforts.",
         expected_outcome |-> "Better glucose control awareness, early intervention",
         action_steps |-> <<
            "Check fasting glucose 2-3 times per week",
            "Monitor post-meal glucose occasionally",
            "Track patterns in glucose readings",
            "Correlate readings with diet and exercise",
            "Share data with healthcare provider" >>,
         target_conditions |-> << "pre_diabetes" >>,
         duration |-> "Ongoing"],
       [title |-> "Weight Management Tracking",
         priority |-> "Medium",
         evidence_level |-> "Moderate",
         description |-> "Regular weight monitoring and body composition tracking.",
         expected_outcome |-> "Maintain healthy weight, track progress",
         action_steps |-> <<
            "Weigh yourself weekly at same time of day",
            "Measure waist circumference monthly",
            "Track BMI changes over time",
            "Monitor clothing fit as additional indicator",
            "Set realistic weight loss goals (1-2 lbs/week)" >>,
         target_conditions |-> << "pre_diabetes", "metabolic_syndrome" >>,
         duration |-> "Ongoing"] >>

categories == <<"dietary_interventions", "exercise_interventions",
                "lifestyle_interventions", "monitoring_interventions">>

build_intervention_library ==
    [dietary_interventions    |-> dietary_interventions,
     exercise_interventions   |-> exercise_interventions,
     lifestyle_interventions  |-> lifestyle_interventions,
     monitoring_interventions |-> monitoring_interventions]

----------------------------------------------------------------------------
(* InterventionEngine.get_interventions                                     *)

Range(s) == {s[i] : i \in DOMAIN s}

\* risk_scores.items() is walked in the order of `conditions'
high_risk_conditions_above_80(risk_scores) ==
    SelectSeq(conditions, LAMBDA condition : risk_scores[condition] > 80)

high_risk_conditions(risk_scores) ==
    SelectSeq(conditions, LAMBDA condition : risk_scores[condition] > 70)

medium_risk_conditions(risk_scores) ==
    SelectSeq(conditions, LAMBDA condition :
        40 < risk_scores[condition] /\ risk_scores[condition] <= 70)

\* intervention.copy() with intervention_copy['personalized_note'] = note
with_note(intervention, note) == ("personalized_note" :> note) @@ intervention

general_entry_unfiltered(intervention) ==
    << with_note(intervention, <<"General health maintenance">>) >>

general_entry(intervention) ==
    IF intervention.priority \in {"High", "Critical"}
    THEN << with_note(intervention, <<"General health maintenance">>) >>
    ELSE <<>>

personalize(intervention, risk_scores) ==
    LET target_conditions == Range(intervention.target_conditions)
        high   == high_risk_conditions(risk_scores)
        medium == medium_risk_conditions(risk_scores)
    IN  IF target_conditions \cap Range(high) # {}
        THEN << with_note([intervention EXCEPT !.priority = "Critical"],
                          <<"High priority due to elevated risk in", high>>) >>
        ELSE IF target_conditions \cap Range(medium) # {}
        THEN << with_note(intervention,
                          <<"Recommended due to moderate risk in", medium>>) >>
        ELSE general_entry(intervention)

calorie_restriction(bmi) ==
    [title |-> "Calorie Restriction for Weight Loss",
     priority |-> "High",
     evidence_level |-> "Strong",
     description |-> "Implement moderate calorie restriction to achieve healthy weight loss.",
     expected_outcome |-> "Lose 1-2 pounds per week, improve metabolic health",
     action_steps |-> << "Reduce daily calorie intake by 500-750 calories",
                         "Focus on portion control",
                         "Use smaller plates and bowls",
                         "Eat slowly and mindfully",
                         "Track food intake with app or journal" >>,
     target_conditions |-> << "pre_diabetes", "metabolic_syndrome" >>,
     duration |-> "3-6 months",
     personalized_note |-> <<"Recommended due to BMI of", bmi>>]

sodium_reduction(systolic_bp) ==
    [title |-> "Sodium Reduction Protocol",
     priority |-> "High",
     evidence_level |-> "Strong",
     description |-> "Aggressive sodium reduction to lower blood pressure.",
     expected_outcome |-> "Reduce systolic BP by 2-8 mmHg",
     action_steps |-> << "Limit sodium to less than 1,500mg daily",
                         "Read nutrition labels carefully",
                         "Cook meals at home more often",
                         "Use herbs and spices instead of salt",
                         "Avoid processed and restaurant foods" >>,
     target_conditions |-> << "hypertension" >>,
     duration |-> "2-4 weeks",
     personalized_note |-> <<"Recommended due to systolic BP of", systolic_bp>>]

glycemic_index(glucose) ==
    [title |-> "Glycemic Index Management",
     priority |-> "High",
     evidence_level |-> "Moderate",
     description |-> "Focus on low glycemic index foods to improve glucose control.",
     expected_outcome |-> "Stabilize blood glucose levels, reduce post-meal spikes",
     action_steps |-> << "Choose foods with GI less than 55",
                         "Pair carbohydrates with protein or healthy fats",
                         "Avoid high-GI foods (white bread, sugary drinks)",
                         "Eat regular, smaller meals throughout the day",
                         "Monitor blood glucose response to different foods" >>,
     target_conditions |-> << "pre_diabetes" >>,
     duration |-> "4-6 weeks",
     personalized_note |-> <<"Recommended due to fasting glucose of", glucose>>]

activity_increase(exercise_minutes) ==
    [title |-> "Physical Activity Increase Plan",
     priority |-> "High",
     evidence_level |-> "Strong",
     description |-> "Gradual increase in physical activity to meet recommended guidelines.",
     expected_outcome |-> "Improve cardiovascular health, enhance insulin sensitivity",
     action_steps |-> << <<"Increase weekly exercise to 150 minutes from", exercise_minutes>>,
                         "Add 10-15 minutes of activity every week",
                         "Include activities you enjoy (dancing, hiking, sports)",
                         "Use fitness tracker or app to monitor progress",
                         "Find exercise buddy for accountability" >>,
     target_conditions |-> << "pre_diabetes", "hypertension", "metabolic_syndrome" >>,
     duration |-> "6-8 weeks",
     personalized_note |-> <<"Current activity level", exercise_minutes>>]

add_specific_recommendations_bmi_from_30(interventions, latest_data) ==
    LET bmi              == Get(latest_data, "bmi", 250)
        systolic_bp      == Get(latest_data, "systolic_bp", 120)
        glucose          == Get(latest_data, "glucose_fasting", 90)
        exercise_minutes == Get(latest_data, "exercise_minutes_per_week", 150)
    IN  [dietary_interventions |->
             interventions.dietary_interventions
             \o (IF bmi >= 300 THEN <<calorie_restriction(bmi)>> ELSE <<>>)
             \o (IF glucose > 100 THEN <<glycemic_index(glucose)>> ELSE <<>>),
         exercise_interventions |->
             interventions.exercise_interventions
             \o (IF exercise_minutes < 150 THEN <<activity_increase(exercise_minutes)>>
                 ELSE <<>>),
         lifestyle_interventions |->
             interventions.lifestyle_interventions
             \o (IF systolic_bp > 130 THEN <<sodium_reduction(systolic_bp)>> ELSE <<>>),
         monitoring_interventions |-> interventions.monitoring_interventions]

add_specific_recommendations(interventions, latest_data) ==
    LET bmi              == Get(latest_data, "bmi", 250)
        systolic_bp      == Get(latest_data, "systolic_bp", 120)
        glucose          == Get(latest_data, "glucose_fasting", 90)
        exercise_minutes == Get(latest_data, "exercise_minutes_per_week", 150)
    IN  [dietary_interventions |->
             interventions.dietary_interventions
             \o (IF bmi > 300 THEN <<calorie_restriction(bmi)>> ELSE <<>>)
             \o (IF glucose > 100 THEN <<glycemic_index(glucose)>> ELSE <<>>),
         exercise_interventions |->
             interventions.exercise_interventions
             \o (IF exercise_minutes < 150 THEN <<activity_increase(exercise_minutes)>>
                 ELSE <<>>),
         lifestyle_interventions |->
             interventions.lifestyle_interventions
             \o (IF systolic_bp > 130 THEN <<sodium_reduction(systolic_bp)>> ELSE <<>>),
         monitoring_interventions |-> interventions.monitoring_interventions]

\* every write of the loop (priority, personalized_note) goes to
\* intervention.copy(), a new dict: the catalog entry keeps its fields
entry_after_personalize_in_place(intervention, risk_scores) ==
    IF personalize(intervention, risk_scores) = <<>> THEN intervention
    ELSE personalize(intervention, risk_scores)[1]

entry_after_personalize(intervention, risk_scores) == intervention

\* the catalog once get_interventions has returned
library_after_get_interventions(data, risk_scores) ==
    IF Len(data) = 0 THEN intervention_library
    ELSE [category \in DOMAIN intervention_library |->
             [i \in 1..Len(intervention_library[category]) |->
                 entry_after_personalize(intervention_library[category][i],
                                         risk_scores)]]

get_interventions(data, risk_scores) ==
    IF Len(data) = 0 THEN EmptyDict
    ELSE LET personalized_interventions ==
                 [category \in DOMAIN intervention_library |->
                     Flatten([i \in 1..Len(intervention_library[category]) |->
                                 personalize(intervention_library[category][i],
                                             risk_scores)])]
         IN  add_specific_recommendations(personalized_interventions, Last(data))

----------------------------------------------------------------------------
(* Engine calls: each evaluates one engine operation on the store's history *)
(* and records what it returned.                                            *)

CallHealthScore ==
    /\ result' = [op |-> "calculate_health_score",
                  value |-> calculate_health_score(health_data)]
    /\ UNCHANGED <<store_vars, intervention_library, wall_clock, form_data, models>>

\* HealthDataManager.get_all_data: health_data.copy()
get_all_data(data) == data

CallDetectTrends ==
    /\ result' = [op |-> "detect_trends", value |-> detect_trends(health_data),
                  data |-> frame_after_detect_trends(get_all_data(health_data))]
    /\ UNCHANGED <<store_vars, intervention_library, wall_clock, form_data, models>>

\* the wall clock at a call, as days after the latest record
ClockOffsets == {0, 31}

LatestDate == IF Len(health_data) = 0 THEN 0 ELSE MaxDate(health_data)

CallCheckAlerts ==
    /\ result' = [op |-> "check_alerts", now |-> wall_clock,
                  value |-> check_alerts(health_data, wall_clock)]
    /\ UNCHANGED <<store_vars, intervention_library, wall_clock, form_data, models>>

CallHealthInsights ==
    /\ result' = [op |-> "get_health_insights", value |-> get_health_insights(health_data)]
    /\ UNCHANGED <<store_vars, intervention_library, wall_clock, form_data, models>>

\* probabilities in hundredths
RiskValues == {10, 20, 40, 70, 80}

\* RiskAssessmentModel.__init__: a scaler and a forest per condition, fitted
\* once on generated data (np.random.seed(42), random_state=42).  What they
\* answer is given for the feature vectors the records in play can yield.
fitted_models(vectors, answers) == [Conditions -> [vectors -> answers]]

\* a risk model no record is ever put to
NoVectors == {}

CallRiskScores_first_record ==
    /\ result' = [op |-> "calculate_risk_scores", forest |-> models,
                  data |-> health_data,
                  value |-> calculate_risk_scores(HeadN(health_data, 1), models)]
    /\ UNCHANGED <<store_vars, intervention_library, wall_clock, form_data, models>>

CallRiskScores ==
    /\ result' = [op |-> "calculate_risk_scores", forest |-> models,
                  data |-> health_data,
                  value |-> calculate_risk_scores(health_data, models)]
    /\ UNCHANGED <<store_vars, intervention_library, wall_clock, form_data, models>>

CallRiskFactors ==
    /\ result' = [op |-> "analyze_risk_factors", value |-> analyze_risk_factors(health_data)]
    /\ UNCHANGED <<store_vars, intervention_library, wall_clock, form_data, models>>

\* HealthDataManager.get_latest_data: health_data.tail(1)
get_latest_data(data) == TailN(data, 1)

\* render_interventions: the engine is given the latest record and a risk
\* score set
CallInterventions(scores) ==
    \E risk_scores \in [Conditions -> scores] :
        /\ result' = [op |-> "get_interventions", risk_scores |-> risk_scores,
                      value |-> get_interventions(get_latest_data(health_data), risk_scores)]
        /\ intervention_library' =
               library_after_get_interventions(get_latest_data(health_data), risk_scores)
        /\ UNCHANGED <<store_vars, wall_clock, form_data, models>>

----------------------------------------------------------------------------
(* Data store: HealthDataManager                                            *)

\* to_dict('records') with every Timestamp replaced by its isoformat() string
serialise(row) == [row EXCEPT !.date = <<"iso", row.date>>]

\* _save_health_data: the file is rewritten with the whole history; when
\* open() raises it is left alone, when json.dump raises it is left broken;
\* both failures are caught and False is returned
save_health_data_merging(data, file, io) ==
    IF io = "written"
    THEN LET rows == [i \in 1..Len(data) |-> serialise(data[i])]
         IN  File(rows \o SelectSeq(file.content,
                                    LAMBDA row : \A i \in DOMAIN rows : rows[i] # row))
    ELSE IF io = "dump_raises" THEN Broken
    ELSE file

save_health_data(data, file, io) ==
    IF io = "written" THEN File([i \in 1..Len(data) |-> serialise(data[i])])
    ELSE IF io = "dump_raises" THEN Broken
    ELSE file

MaxRecords == 2

add_health_data(row, io) ==
    /\ Len(health_data) < MaxRecords
    /\ health_data' = sort_values_date(Append(health_data, row))
    /\ data_file' = save_health_data(health_data', data_file, io)
    /\ result' = [op |-> "add_health_data", value |-> (io = "written")]
    /\ UNCHANGED <<tracking_vars, health_data_b, intervention_library, wall_clock, form_data, models>>

----------------------------------------------------------------------------
(* Inputs of the scoring specification: the last record ranges over every   *)
(* combination of values on both sides of each threshold of the score.      *)

MaxPrefix == 1

BmiValues         == {180, 220, 260, 310}
SystolicValues    == {120, 135, 145}
DiastolicValues   == {80, 85, 95}
GlucoseValues     == {90, 110, 130}
CholesterolValues == {180, 250}
HdlValues         == {35, 55}
ExerciseValues    == {50, 100, 150}
SleepValues       == {55, 65, 75, 95}
StressValues      == {2, 5, 8}
SmokingValues     == {0, 1}

ScoreFields == {"bmi", "systolic_bp", "diastolic_bp", "glucose_fasting",
                "total_cholesterol", "hdl_cholesterol",
                "exercise_minutes_per_week", "sleep_hours", "stress_level",
                "smoking_status"}

\* A record as the input form writes it (health_input.py), restricted to the
\* columns an engine reads; the columns no engine compares with a threshold
\* keep the form's initial value.
FormRecord(d, bmi, sys, dia, hr, glu, chol, hdl, tri, ex, sl, st, sm) ==
    [date |-> d, age |-> 40, bmi |-> bmi, waist_circumference |-> 80,
     systolic_bp |-> sys, diastolic_bp |-> dia,
     resting_heart_rate |-> hr, glucose_fasting |-> glu,
     total_cholesterol |-> chol, hdl_cholesterol |-> hdl,
     ldl_cholesterol |-> 100, triglycerides |-> tri,
     exercise_minutes_per_week |-> ex, sleep_hours |-> sl, stress_level |-> st,
     smoking_status |-> sm, alcohol_consumption |-> 0]

ScoreRecords ==
    { FormRecord(2, bmi, sys, dia, 70, glu, chol, hdl, 150, ex, sl, st, sm) :
        bmi \in BmiValues, sys \in SystolicValues, dia \in DiastolicValues,
        glu \in GlucoseValues, chol \in CholesterolValues, hdl \in HdlValues,
        ex \in ExerciseValues, sl \in SleepValues, st \in StressValues,
        sm \in SmokingValues }

\* rows of a frame that lacks columns (progress_tracker.py builds frames from
\* single rows): the defaults of Series.get apply
SparseRecords ==
    { [date |-> 2],
      [date |-> 2, bmi |-> 310, systolic_bp |-> 145, glucose_fasting |-> 130],
      [date |-> 2, smoking_status |-> 1, stress_level |-> 8, sleep_hours |-> 55] }

EarlierRecords ==
    { FormRecord(1, 220, 120, 80, 70, 90, 180, 55, 150, 150, 75, 2, 0),
      FormRecord(1, 310, 145, 95, 70, 130, 250, 35, 150, 50, 55, 8, 1) }

RECURSIVE SeqsUpTo(_, _)
SeqsUpTo(S, n) ==
    IF n = 0 THEN {<<>>}
    ELSE LET shorter == SeqsUpTo(S, n - 1)
         IN  shorter \cup {Append(s, x) : s \in shorter, x \in S}

\* every row of a frame has the frame's columns, so a sparse row is the only
\* row of its frame
ScoreHistories ==
    {<<>>} \cup { Append(prefix, row) : prefix \in SeqsUpTo(EarlierRecords, MaxPrefix),
                                        row \in ScoreRecords }
           \cup { <<row>> : row \in SparseRecords }

InitScore ==
    /\ health_data \in ScoreHistories
    /\ data_file = NoFile
    /\ user_goals = <<>>
    /\ goals_file = NoFile
    /\ active_interventions = <<>>
    /\ interventions_file = NoFile
    /\ health_data_b = <<>>
    /\ intervention_library = build_intervention_library
    /\ form_data = EmptyDict
    /\ models \in fitted_models(NoVectors, {})
    /\ wall_clock = LatestDate
    /\ result = NoResult

NextScore == CallHealthScore

SpecScore == InitScore /\ [][NextScore]_vars

----------------------------------------------------------------------------
ReplaceLast(data, row) == Append(SubSeq(data, 1, Len(data) - 1), row)

ScoredNonEmpty == result.op = "calculate_health_score" /\ Len(health_data) > 0

\* C1: calculate_health_score returns a value in [0,100] for every history:
\* 0 for the empty history, and a value between 0 and 100 whatever the fields
\* of the last record are.
C1_HealthScoreInRange ==
    result.op = "calculate_health_score" =>
        /\ result.value \in 0..100
        /\ (Len(health_data) = 0 => result.value = 0)

\* the penalties of the last record exceed 100 and the score was clamped to 0
C1_Witness ==
    /\ ScoredNonEmpty
    /\ raw_health_score(Last(health_data)) < 0
    /\ result.value = 0

\* C2: with every other field of the last record fixed, raising systolic_bp
\* above 130, glucose_fasting above 100 or bmi above 25 further never raises
\* the score.
C2_HealthScoreMonotone ==
    ScoredNonEmpty =>
        LET row == Last(health_data)
            Raised(key, v) == calculate_health_score(
                                  ReplaceLast(health_data, [row EXCEPT ![key] = v]))
        IN  /\ "systolic_bp" \in DOMAIN row /\ row.systolic_bp > 130 =>
                  \A v \in SystolicValues :
                      v > row.systolic_bp => Raised("systolic_bp", v) <= result.value
            /\ "glucose_fasting" \in DOMAIN row /\ row.glucose_fasting > 100 =>
                  \A v \in GlucoseValues :
                      v > row.glucose_fasting => Raised("glucose_fasting", v) <= result.value
            /\ "bmi" \in DOMAIN row /\ row.bmi > 250 =>
                  \A v \in BmiValues :
                      v > row.bmi => Raised("bmi", v) <= result.value

\* an overweight record whose score is strictly above that of the same record
\* with an obese BMI
C2_Witness ==
    /\ ScoredNonEmpty
    /\ "bmi" \in DOMAIN Last(health_data)
    /\ Last(health_data).bmi = 260
    /\ calculate_health_score(
           ReplaceLast(health_data, [Last(health_data) EXCEPT !.bmi = 310])) < result.value

\* the sum of the terms as the claim lists them
ClaimedTermSum(row) ==
      (IF row.bmi > 300 THEN -20 ELSE IF row.bmi > 250 THEN -10
       ELSE IF row.bmi < 185 THEN -15 ELSE 0)
    + (IF row.systolic_bp > 140 \/ row.diastolic_bp > 90 THEN -25
       ELSE IF row.systolic_bp > 130 \/ row.diastolic_bp > 80 THEN -15 ELSE 0)
    + (IF row.glucose_fasting > 126 THEN -30
       ELSE IF row.glucose_fasting > 100 THEN -15 ELSE 0)
    + (IF row.total_cholesterol > 240 THEN -15 ELSE 0)
    + (IF row.hdl_cholesterol < 40 THEN -10 ELSE 0)
    + (IF row.exercise_minutes_per_week >= 150 THEN 5
       ELSE IF row.exercise_minutes_per_week < 75 THEN -10 ELSE 0)
    + (IF row.sleep_hours >= 70 /\ row.sleep_hours <= 80 THEN 5
       ELSE IF row.sleep_hours < 60 \/ row.sleep_hours > 90 THEN -10 ELSE 0)
    + (IF row.stress_level <= 3 THEN 5 ELSE IF row.stress_level >= 8 THEN -15 ELSE 0)
    + (IF row.smoking_status = 1 THEN -20 ELSE 0)

\* systolic=120, diastolic=80, glucose=90, BMI=22, total cholesterol=180,
\* HDL=55, exercise=150, sleep=7.5, stress=2, non-smoker
IsExampleRecord(row) ==
    /\ ScoreFields \subseteq DOMAIN row
    /\ row.systolic_bp = 120 /\ row.diastolic_bp = 80 /\ row.glucose_fasting = 90
    /\ row.bmi = 220 /\ row.total_cholesterol = 180 /\ row.hdl_cholesterol = 55
    /\ row.exercise_minutes_per_week = 150 /\ row.sleep_hours = 75
    /\ row.stress_level = 2 /\ row.smoking_status = 0

\* C3: the score is min(100, max(0, 100 + sum of the listed terms)), the terms
\* taken from the last record only; the example record scores exactly 100.
C3_HealthScoreFormula ==
    (ScoredNonEmpty /\ ScoreFields \subseteq DOMAIN Last(health_data)) =>
        LET row == Last(health_data)
        IN  /\ result.value = Min2(100, Max2(0, 100 + ClaimedTermSum(row)))
            /\ (IsExampleRecord(row) => result.value = 100)

\* the example record scored 100 behind an earlier record that scores less
C3_Witness ==
    /\ ScoredNonEmpty
    /\ Len(health_data) > 1
    /\ IsExampleRecord(Last(health_data))
    /\ calculate_health_score(<<health_data[1]>>) < 100
    /\ result.value = 100

----------------------------------------------------------------------------
(* The application: records are added to the store and the engines are      *)
(* evaluated on the store's history.                                        *)

MainRecords ==
    { FormRecord(d, 220, 120, 80, 70, glu, 180, 55, 150, 150, 75, 2, 0) :
        d \in {1, 2}, glu \in {100, 110} }

MainRiskValues == {20, 80}

AddHealthData ==
    \E row \in MainRecords, io \in IoOutcomes : add_health_data(row, io)

\* the day the application is started
Today == 2

Init ==
    /\ health_data = <<>>
    /\ data_file = NoFile
    /\ user_goals = <<>>
    /\ goals_file = NoFile
    /\ active_interventions = <<>>
    /\ interventions_file = NoFile
    /\ health_data_b = <<>>
    /\ intervention_library = build_intervention_library
    /\ form_data = EmptyDict
    /\ models \in fitted_models(NoVectors, {})
    /\ wall_clock = Today
    /\ result = NoResult

\* the feature vectors the records of the main specification yield
MainVectors == {prepare_features(row) : row \in MainRecords}

\* what the forests of pre_diabetes, hypertension and metabolic_syndrome
\* answer in the main specification: each answers a value of MainRiskValues
\* or its scaler or forest raises
MainAnswers ==
    { <<20, 20, 20>>, <<80, 80, 80>>, <<80, Fails, 20>>, <<20, 80, Fails>>,
      <<Fails, 20, 80>>, <<Fails, Fails, Fails>> }

MainModels ==
    { [condition \in Conditions |->
          [features \in MainVectors |->
              answer[CHOOSE i \in DOMAIN conditions : conditions[i] = condition]]] :
        answer \in MainAnswers }

\* the application with a risk model whose answers are not known beforehand
InitMain ==
    /\ health_data = <<>>
    /\ data_file = NoFile
    /\ user_goals = <<>>
    /\ goals_file = NoFile
    /\ active_interventions = <<>>
    /\ interventions_file = NoFile
    /\ health_data_b = <<>>
    /\ intervention_library = build_intervention_library
    /\ form_data = EmptyDict
    /\ models \in MainModels
    /\ wall_clock = Today
    /\ result = NoResult

Next ==
    \/ AddHealthData
    \/ CallHealthScore
    \/ CallDetectTrends
    \/ CallHealthInsights
    \/ CallCheckAlerts
    \/ CallRiskScores
    \/ CallRiskFactors
    \/ CallInterventions(MainRiskValues)

Spec == InitMain /\ [][Next]_vars

----------------------------------------------------------------------------
\* C4: detect_trends on exactly 2 records whose values of a tracked metric
\* are [100, 110] in date order reports direction "increasing" with magnitude
\* 10% for that metric.
C4_TwoRecordTrend ==
    (result.op = "detect_trends" /\ Len(health_data) = 2) =>
        \A metric \in TrendMetrics :
            (health_data[1][metric] = 100 /\ health_data[2][metric] = 110) =>
                /\ metric \in DOMAIN result.value
                /\ result.value[metric].direction = "increasing"
                /\ result.value[metric].magnitude[1] = 10 * result.value[metric].magnitude[2]

\* C5: detect_trends on a history of zero or one record returns an empty
\* result.
C5_ShortHistoryNoTrends ==
    (result.op = "detect_trends" /\ Len(health_data) < 2) => result.value = EmptyDict

\* detect_trends was evaluated on a history of exactly one record
C5_Witness ==
    /\ result.op = "detect_trends"
    /\ Len(health_data) = 1
    /\ result.value = EmptyDict

\* C8: on an empty history every engine returns its empty or zero result:
\* check_alerts an empty list, calculate_risk_scores zero for each of the three
\* conditions, calculate_health_score 0, and detect_trends, get_health_insights,
\* analyze_risk_factors and get_interventions empty collections.
C8_EmptyHistoryResults ==
    Len(health_data) = 0 =>
        /\ result.op = "check_alerts" => result.value = <<>>
        /\ result.op = "calculate_risk_scores" =>
               /\ DOMAIN result.value = {"pre_diabetes", "hypertension", "metabolic_syndrome"}
               /\ \A condition \in DOMAIN result.value : result.value[condition] = 0
        /\ result.op = "calculate_health_score" => result.value = 0
        /\ result.op = "detect_trends" => DOMAIN result.value = {}
        /\ result.op = "get_health_insights" => result.value = <<>>
        /\ result.op = "analyze_risk_factors" => DOMAIN result.value = {}
        /\ result.op = "get_interventions" => DOMAIN result.value = {}

\* the risk scores were computed on the empty history
C8_Witness ==
    /\ Len(health_data) = 0
    /\ result.op = "calculate_risk_scores"
    /\ result.value["hypertension"] = 0

----------------------------------------------------------------------------
(* Inputs of the alert specification: histories in date order, the records  *)
(* a fixed number of days apart, the last record on either side of every    *)
(* critical threshold.                                                      *)

MaxAlertPrefix == 4

GapValues == {5, 40}

AlertPrefixRecords ==
    { FormRecord(0, 220, 110, 70, 70, 90, 180, 55, 150, 300, 75, 2, 0),
      FormRecord(0, 260, 185, 95, 70, 130, 250, 55, 150, 100, 75, 8, 0) }

AlertLastRecords ==
    { FormRecord(0, bmi, sys, dia, hr, glu, chol, 35, 150, 100, 75, 2, 0) :
        bmi \in {220, 400}, sys \in {120, 135, 180, 185}, dia \in {80, 120},
        hr \in {70, 120}, glu \in {90, 250}, chol \in {180, 300} }

\* the rows dated gap, 2 * gap, ...
Dated(rows, gap) == [i \in 1..Len(rows) |-> [rows[i] EXCEPT !.date = i * gap]]

AlertHistories ==
    { Dated(Append(prefix, row), gap) :
        prefix \in SeqsUpTo(AlertPrefixRecords, MaxAlertPrefix),
        row \in AlertLastRecords, gap \in GapValues }

InitAlerts ==
    /\ health_data \in AlertHistories
    /\ data_file = NoFile
    /\ user_goals = <<>>
    /\ goals_file = NoFile
    /\ active_interventions = <<>>
    /\ interventions_file = NoFile
    /\ health_data_b = <<>>
    /\ intervention_library = build_intervention_library
    /\ form_data = EmptyDict
    /\ models \in fitted_models(NoVectors, {})
    /\ wall_clock \in {LatestDate + offset : offset \in ClockOffsets}
    /\ result = NoResult

NextAlerts == CallCheckAlerts

SpecAlerts == InitAlerts /\ [][NextAlerts]_vars

\* C6: the list check_alerts returns is ordered by severity: every Critical
\* alert precedes every Warning alert and every Warning alert precedes every
\* Info alert, whichever pass produced them.
C6_AlertsSortedBySeverity ==
    result.op = "check_alerts" =>
        \A i, j \in DOMAIN result.value :
            i < j =>
                /\ result.value[j].severity = "Critical" =>
                       result.value[i].severity = "Critical"
                /\ result.value[j].severity = "Warning" =>
                       result.value[i].severity \in {"Critical", "Warning"}

\* a result holding a Critical alert, an Info alert of the value pass and a
\* Warning alert of the trend pass, which the passes emit after that Info alert
C6_Witness ==
    /\ result.op = "check_alerts"
    /\ \E i, j, k \in DOMAIN result.value :
           /\ i < j /\ j < k
           /\ result.value[i].severity = "Critical"
           /\ result.value[j].severity = "Warning"
           /\ "change" \in DOMAIN result.value[j]
           /\ result.value[k].severity = "Info"
           /\ "value" \in DOMAIN result.value[k]

\* the critical table as the claim lists it (bmi in tenths)
ClaimedCriticalTable ==
    { <<"systolic_bp", 180>>, <<"diastolic_bp", 120>>, <<"glucose_fasting", 250>>,
      <<"total_cholesterol", 300>>, <<"bmi", 400>>, <<"resting_heart_rate", 120>> }

HasCriticalAlert(alerts, metric, threshold) ==
    \E i \in DOMAIN alerts :
        /\ alerts[i].severity = "Critical"
        /\ alerts[i].metric = metric
        /\ alerts[i].threshold = threshold

\* C7: whenever the last record's value of a metric of the critical table is
\* at or above its threshold, check_alerts contains a Critical alert for that
\* metric with the table's threshold.
C7_CriticalValueAlert ==
    (result.op = "check_alerts" /\ Len(health_data) > 0) =>
        \A entry \in ClaimedCriticalTable :
            Last(health_data)[entry[1]] >= entry[2] =>
                HasCriticalAlert(result.value, entry[1], entry[2])

\* systolic_bp = 185 yields a Critical alert for systolic_bp with threshold
\* 180, ahead of a Warning alert
C7_Witness ==
    /\ result.op = "check_alerts"
    /\ Len(health_data) > 0
    /\ Last(health_data).systolic_bp = 185
    /\ HasCriticalAlert(result.value, "systolic_bp", 180)
    /\ result.value[1].severity = "Critical"
    /\ \E i \in DOMAIN result.value : result.value[i].severity = "Warning"

----------------------------------------------------------------------------
(* Inputs of the intervention specification: the last record on either side *)
(* of the four metric triggers, every combination of risk scores.           *)

InterventionRecords ==
    { FormRecord(2, bmi, sys, 80, 70, glu, 180, 55, 150, ex, 75, 2, 0) :
        bmi \in {220, 310}, sys \in {120, 135}, glu \in {90, 110}, ex \in {100, 150} }

InterventionHistories == { <<row>> : row \in InterventionRecords }

InitInterventions ==
    /\ health_data \in InterventionHistories
    /\ data_file = NoFile
    /\ user_goals = <<>>
    /\ goals_file = NoFile
    /\ active_interventions = <<>>
    /\ interventions_file = NoFile
    /\ health_data_b = <<>>
    /\ intervention_library = build_intervention_library
    /\ form_data = EmptyDict
    /\ models \in fitted_models(NoVectors, {})
    /\ wall_clock = LatestDate
    /\ result = NoResult

NextInterventions == CallInterventions(RiskValues)

SpecInterventions == InitInterventions /\ [][NextInterventions]_vars

\* the entries of a category of the result that carry the title of a catalog
\* entry
Returned(category, title) ==
    SelectSeq(result.value[category], LAMBDA e : e.title = title)

AnyTargetAbove70(entry, risk_scores) ==
    \E i \in DOMAIN entry.target_conditions : risk_scores[entry.target_conditions[i]] > 70

AnyTargetModerate(entry, risk_scores) ==
    \E i \in DOMAIN entry.target_conditions :
        /\ risk_scores[entry.target_conditions[i]] > 40
        /\ risk_scores[entry.target_conditions[i]] <= 70

\* the note is <<text, list of the conditions it names>>
NoteNames(note, condition) ==
    /\ Len(note) = 2
    /\ \E i \in DOMAIN note[2] : note[2][i] = condition

\* the fields of a catalog entry other than its priority
SameButPriority(e, entry) ==
    \A f \in DOMAIN entry \ {"priority"} : f \in DOMAIN e /\ e[f] = entry[f]

CalledInterventions == result.op = "get_interventions" /\ Len(health_data) > 0

\* C9: when a condition scores above 0.7, every catalog entry whose
\* target_conditions includes it is returned with priority "Critical" and a
\* personalized note that names the condition.
C9_HighRiskEscalation ==
    CalledInterventions =>
        \A condition \in Conditions :
            result.risk_scores[condition] > 70 =>
                \A category \in DOMAIN intervention_library :
                    \A k \in DOMAIN intervention_library[category] :
                        LET entry == intervention_library[category][k]
                        IN  condition \in Range(entry.target_conditions) =>
                                /\ Len(Returned(category, entry.title)) >= 1
                                /\ \A i \in DOMAIN Returned(category, entry.title) :
                                       LET e == Returned(category, entry.title)[i]
                                       IN  /\ e.priority = "Critical"
                                           /\ NoteNames(e.personalized_note, condition)

\* the risk scores {pre_diabetes: 0.8, hypertension: 0.2, metabolic_syndrome:
\* 0.1}: the Medium-priority entry that targets pre_diabetes alone is returned
\* as Critical
C9_Witness ==
    /\ CalledInterventions
    /\ result.risk_scores = [pre_diabetes |-> 80, hypertension |-> 20,
                             metabolic_syndrome |-> 10]
    /\ \E i \in DOMAIN result.value["dietary_interventions"] :
           LET e == result.value["dietary_interventions"][i]
           IN  /\ e.title = "Carbohydrate Counting"
               /\ e.priority = "Critical"
               /\ NoteNames(e.personalized_note, "pre_diabetes")

\* the three cases of the catalog filter; `general' is what the third case
\* requires of the returned clone
ThreeCases(general(_, _)) ==
    CalledInterventions =>
        \A category \in DOMAIN intervention_library :
            \A k \in DOMAIN intervention_library[category] :
                LET entry    == intervention_library[category][k]
                    returned == Returned(category, entry.title)
                IN  /\ Len(returned) <= 1
                    /\ IF AnyTargetAbove70(entry, result.risk_scores)
                       THEN /\ Len(returned) = 1
                            /\ SameButPriority(returned[1], entry)
                            /\ returned[1].priority = "Critical"
                            /\ returned[1].personalized_note[1]
                                   = "High priority due to elevated risk in"
                       ELSE IF AnyTargetModerate(entry, result.risk_scores)
                       THEN /\ Len(returned) = 1
                            /\ SameButPriority(returned[1], entry)
                            /\ returned[1].priority = entry.priority
                            /\ returned[1].personalized_note[1]
                                   = "Recommended due to moderate risk in"
                       ELSE IF entry.priority \in {"High", "Critical"}
                       THEN /\ Len(returned) = 1
                            /\ general(returned[1], entry)
                       ELSE Len(returned) = 0

Unannotated(e, entry) == e = entry

GeneralMaintenanceNote(e, entry) ==
    /\ SameButPriority(e, entry)
    /\ e.priority = entry.priority
    /\ DOMAIN e = DOMAIN entry \cup {"personalized_note"}
    /\ e.personalized_note = <<"General health maintenance">>

\* C10 as stated: each catalog entry is treated by exactly one of three cases
\* (Critical clone with a note; else moderate-risk clone with base priority
\* and a note; else included unannotated only if its base priority is High or
\* Critical) and appears at most once.
C10_AsStated == ThreeCases(Unannotated)

\* C10 as amended: the same three cases, the entry of the third case being
\* returned as a clone with its base priority and the note "General health
\* maintenance".
C10_ThreeCases == ThreeCases(GeneralMaintenanceNote)

\* no condition is above 0.4: a High entry is returned with the general note
\* and a Medium entry of the same category is omitted
C10_Witness ==
    /\ CalledInterventions
    /\ \A condition \in Conditions : result.risk_scores[condition] <= 40
    /\ Len(Returned("dietary_interventions", "DASH Diet Implementation")) = 1
    /\ Returned("dietary_interventions", "DASH Diet Implementation")[1].personalized_note
           = <<"General health maintenance">>
    /\ Len(Returned("dietary_interventions", "Carbohydrate Counting")) = 0

----------------------------------------------------------------------------
(* DataProcessor.validate_health_data: the range checks of the input form.  *)
(* The argument is a dict: a checked field may be absent from it.           *)

age_error_zero_accepted(data) ==
    IF "age" \notin DOMAIN data \/ data["age"] < 0 \/ data["age"] > 150
    THEN <<"Age must be between 1 and 150 years">> ELSE <<>>

age_error(data) ==
    IF "age" \notin DOMAIN data \/ data["age"] <= 0 \/ data["age"] > 150
    THEN <<"Age must be between 1 and 150 years">> ELSE <<>>

\* bmi in tenths
bmi_error(data) ==
    IF "bmi" \notin DOMAIN data \/ data["bmi"] < 100 \/ data["bmi"] > 600
    THEN <<"BMI must be between 10 and 60">> ELSE <<>>

systolic_bp_error(data) ==
    IF "systolic_bp" \notin DOMAIN data \/ data["systolic_bp"] < 70
       \/ data["systolic_bp"] > 250
    THEN <<"Systolic blood pressure must be between 70 and 250 mmHg">> ELSE <<>>

diastolic_bp_error(data) ==
    IF "diastolic_bp" \notin DOMAIN data \/ data["diastolic_bp"] < 40
       \/ data["diastolic_bp"] > 150
    THEN <<"Diastolic blood pressure must be between 40 and 150 mmHg">> ELSE <<>>

glucose_fasting_error(data) ==
    IF "glucose_fasting" \notin DOMAIN data \/ data["glucose_fasting"] < 50
       \/ data["glucose_fasting"] > 400
    THEN <<"Fasting glucose must be between 50 and 400 mg/dL">> ELSE <<>>

total_cholesterol_error(data) ==
    IF "total_cholesterol" \notin DOMAIN data \/ data["total_cholesterol"] < 100
       \/ data["total_cholesterol"] > 500
    THEN <<"Total cholesterol must be between 100 and 500 mg/dL">> ELSE <<>>

validate_health_data(data) ==
    age_error(data) \o bmi_error(data) \o systolic_bp_error(data)
    \o diastolic_bp_error(data) \o glucose_fasting_error(data)
    \o total_cholesterol_error(data)

\* HealthInputComponent.render: the submitted dict is validated
CallValidate ==
    /\ result' = [op |-> "validate_health_data", data |-> form_data,
                  value |-> validate_health_data(form_data)]
    /\ UNCHANGED <<store_vars, intervention_library, wall_clock, form_data, models>>

(* Inputs of the validation specification: every checked field is absent,  *)
(* just outside, or on a boundary of its range.                             *)

Absent == -1

ValidatedFields == {"age", "bmi", "systolic_bp", "diastolic_bp", "glucose_fasting",
                    "total_cholesterol"}

\* field |-> <<low, high>>, the range the claim states for it
ClaimedRanges ==
    [age |-> <<1, 150>>, bmi |-> <<100, 600>>, systolic_bp |-> <<70, 250>>,
     diastolic_bp |-> <<40, 150>>, glucose_fasting |-> <<50, 400>>,
     total_cholesterol |-> <<100, 500>>]

FieldChoices(field) ==
    {Absent, ClaimedRanges[field][1] - 1, ClaimedRanges[field][1],
     ClaimedRanges[field][2], ClaimedRanges[field][2] + 1}

\* the dict that holds the fields whose choice is not Absent
FormDict(choice) ==
    [field \in {f \in ValidatedFields : choice[f] # Absent} |-> choice[field]]

ValidateInputs ==
    { FormDict([age |-> age, bmi |-> bmi, systolic_bp |-> systolic_bp,
                diastolic_bp |-> diastolic_bp, glucose_fasting |-> glucose_fasting,
                total_cholesterol |-> total_cholesterol]) :
      age \in FieldChoices("age"), bmi \in FieldChoices("bmi"),
      systolic_bp \in FieldChoices("systolic_bp"),
      diastolic_bp \in FieldChoices("diastolic_bp"),
      glucose_fasting \in FieldChoices("glucose_fasting"),
      total_cholesterol \in FieldChoices("total_cholesterol") }

InitValidate ==
    /\ health_data = <<>>
    /\ data_file = NoFile
    /\ user_goals = <<>>
    /\ goals_file = NoFile
    /\ active_interventions = <<>>
    /\ interventions_file = NoFile
    /\ health_data_b = <<>>
    /\ intervention_library = build_intervention_library
    /\ form_data \in ValidateInputs
    /\ models \in fitted_models(NoVectors, {})
    /\ wall_clock = Today
    /\ result = NoResult

NextValidate == CallValidate

SpecValidate == InitValidate /\ [][NextValidate]_vars

FailingFields(data) ==
    {f \in ValidatedFields :
        \/ f \notin DOMAIN data
        \/ data[f] < ClaimedRanges[f][1]
        \/ data[f] > ClaimedRanges[f][2]}

\* C11: validate_health_data returns the empty list for a dict whose six
\* checked fields are all present and in range (age 1..150, bmi 10..60,
\* systolic 70..250, diastolic 40..150, glucose 50..400, cholesterol
\* 100..500), and otherwise a non-empty list with one error per failing field.
C11_ValidationErrors ==
    result.op = "validate_health_data" =>
        /\ Len(result.value) = Cardinality(FailingFields(result.data))
        /\ FailingFields(result.data) = {} <=> result.value = <<>>

C11_Witness ==
    /\ result.op = "validate_health_data"
    /\ "bmi" \notin DOMAIN result.data
    /\ "age" \in DOMAIN result.data /\ result.data["age"] = 0
    /\ Len(result.value) = 2

----------------------------------------------------------------------------
(* Data store: loading, update, delete and import of the history            *)

\* pd.to_datetime on the 'date' column of a loaded row
to_datetime(row) == [row EXCEPT !.date = row.date[2]]

\* _load_health_data: an absent file, a file json.load raises on and an empty
\* list are the empty frame
load_health_data(file) ==
    IF ~file.exists \/ ~file.parses THEN <<>>
    ELSE [i \in 1..Len(file.content) |-> to_datetime(file.content[i])]

\* self.health_data.at[index, key] = value for every key of the dict; the
\* frame is left in the order it was in
set_row_sorting(data, index, changes) ==
    sort_values_date([data EXCEPT ![index + 1] = changes @@ @])

set_row(data, index, changes) == [data EXCEPT ![index + 1] = changes @@ @]

\* index is the 0-based row label
update_health_data(index, changes, io) ==
    /\ IF index < 0 \/ index >= Len(health_data)
       THEN /\ result' = [op |-> "update_health_data", index |-> index, value |-> FALSE]
            /\ UNCHANGED <<health_data, data_file>>
       ELSE /\ health_data' = set_row(health_data, index, changes)
            /\ data_file' = save_health_data(health_data', data_file, io)
            /\ result' = [op |-> "update_health_data", index |-> index,
                          value |-> (io = "written")]
    /\ UNCHANGED <<tracking_vars, health_data_b, intervention_library, wall_clock, form_data, models>>

\* DataFrame.drop(index).reset_index(drop=True)
drop(data, index) ==
    [i \in 1..(Len(data) - 1) |-> IF i <= index THEN data[i] ELSE data[i + 1]]

delete_health_data(index, io) ==
    /\ IF index < 0 \/ index >= Len(health_data)
       THEN /\ result' = [op |-> "delete_health_data", index |-> index, value |-> FALSE]
            /\ UNCHANGED <<health_data, data_file>>
       ELSE /\ health_data' = drop(health_data, index)
            /\ data_file' = save_health_data(health_data', data_file, io)
            /\ result' = [op |-> "delete_health_data", index |-> index,
                          value |-> (io = "written")]
    /\ UNCHANGED <<tracking_vars, health_data_b, intervention_library, wall_clock, form_data, models>>

drop_duplicates_keeping_all(data) == data

\* DataFrame.drop_duplicates(): of equal rows the first is kept
drop_duplicates(data) ==
    LET keep == {i \in 1..Len(data) : \A j \in 1..(i - 1) : data[j] # data[i]}
        F[i \in 0..Len(data)] ==
            IF i = 0 THEN <<>>
            ELSE IF i \in keep THEN Append(F[i - 1], data[i]) ELSE F[i - 1]
    IN  F[Len(data)]

\* rows: what read_csv / read_json make of the text that is passed in;
\* `before' is the history the call found
import_data(rows, format, io) ==
    /\ Len(drop_duplicates(health_data \o rows)) <= MaxRecords
    /\ IF format \notin {"csv", "json"}
       THEN /\ result' = [op |-> "import_data", rows |-> rows, format |-> format,
                          before |-> health_data, value |-> FALSE]
            /\ UNCHANGED <<health_data, data_file>>
       ELSE /\ health_data' = sort_values_date(drop_duplicates(health_data \o rows))
            /\ data_file' = save_health_data(health_data', data_file, io)
            /\ result' = [op |-> "import_data", rows |-> rows, format |-> format,
                          before |-> health_data, value |-> (io = "written")]
    /\ UNCHANGED <<tracking_vars, health_data_b, intervention_library, wall_clock, form_data, models>>

\* HealthDataManager.__init__: the application is started again and the
\* manager loads what the files hold (the lists of C17 are loaded as read)
load_json(file) == IF file.exists /\ file.parses THEN file.content ELSE <<>>

Restart ==
    /\ health_data' = load_health_data(data_file)
    /\ user_goals' = load_json(goals_file)
    /\ active_interventions' = load_json(interventions_file)
    /\ result' = [op |-> "__init__"]
    /\ UNCHANGED <<data_file, goals_file, interventions_file, health_data_b,
                   intervention_library, wall_clock, form_data, models>>

(* The store specification: every operation on the history, on records that *)
(* differ in date and in one value.                                         *)

Indexes == -1..MaxRecords

Changes == {[date |-> 1], [date |-> 2], [glucose_fasting |-> 110]}

ImportBatches == {<<row>> : row \in MainRecords}
                 \cup {<<a, b>> : a \in {r \in MainRecords : r.date = 2},
                                  b \in {r \in MainRecords : r.glucose_fasting = 100}}

Formats == {"csv", "json", "xml"}

UpdateHealthData ==
    \E index \in Indexes, changes \in Changes, io \in IoOutcomes :
        update_health_data(index, changes, io)

DeleteHealthData ==
    \E index \in Indexes, io \in IoOutcomes : delete_health_data(index, io)

ImportData ==
    \E rows \in ImportBatches, format \in Formats, io \in IoOutcomes :
        import_data(rows, format, io)

NextStore ==
    \/ AddHealthData
    \/ UpdateHealthData
    \/ DeleteHealthData
    \/ ImportData
    \/ Restart

SpecStore == Init /\ [][NextStore]_vars

IsAscending(data) == \A i \in 1..(Len(data) - 1) : data[i].date <= data[i + 1].date

\* C12: after any sequence of add, update, delete and import operations the
\* stored history is in ascending date order, so that its positionally last
\* record has the maximum date.
C12_HistoryAscending ==
    /\ IsAscending(health_data)
    /\ Len(health_data) > 0 => Last(health_data).date = MaxDate(health_data)

----------------------------------------------------------------------------
(* Claims on the alerts' fields and on the inverted comparisons,            *)
(* checked in SpecAlerts                                                    *)

Severities == {"Critical", "Warning", "Info"}

CommonAlertFields == {"severity", "message", "recommendation", "metric"}

\* what an alert carries besides the common fields, by the pass and rule
\* that made it
AlertPayloads ==
    { {"value", "threshold"}, {"change", "threshold"}, {"change"},
      {"days_since_last"}, {"average_gap"}, {"missing"},
      {"coefficient_of_variation"} }

ClaimedLowTable ==
    { <<"Warning", "hdl_cholesterol", 40>>,
      <<"Info", "exercise_minutes_per_week", 150>>,
      <<"Info", "sleep_hours", 60>> }

ClaimedHighTable ==
    { <<"Warning", "systolic_bp", 140>>, <<"Warning", "diastolic_bp", 90>>,
      <<"Warning", "glucose_fasting", 126>>, <<"Warning", "total_cholesterol", 240>>,
      <<"Warning", "bmi", 300>>, <<"Warning", "resting_heart_rate", 100>>,
      <<"Warning", "triglycerides", 200>>,
      <<"Info", "systolic_bp", 130>>, <<"Info", "diastolic_bp", 80>>,
      <<"Info", "glucose_fasting", 100>>, <<"Info", "total_cholesterol", 200>>,
      <<"Info", "bmi", 250>> }

HasAlert(alerts, severity, metric) ==
    \E i \in DOMAIN alerts :
        /\ alerts[i].severity = severity
        /\ alerts[i].metric = metric
        /\ "value" \in DOMAIN alerts[i]

\* C14: a last record whose hdl_cholesterol is below 40 yields a Warning
\* alert for hdl_cholesterol, one whose exercise_minutes_per_week is below
\* 150 or whose sleep_hours is below 6 yields the Info alert of that metric,
\* and every other metric of the warning and info tables alerts when its
\* value is at or above the threshold.
C14_InvertedComparisons ==
    (result.op = "check_alerts" /\ Len(health_data) > 0) =>
        /\ \A entry \in ClaimedLowTable :
               Last(health_data)[entry[2]] < entry[3] =>
                   HasAlert(result.value, entry[1], entry[2])
        /\ \A entry \in ClaimedHighTable :
               Last(health_data)[entry[2]] >= entry[3] =>
                   HasAlert(result.value, entry[1], entry[2])

----------------------------------------------------------------------------
(* Claims on the engines, checked in Spec                                   *)

\* C15: when transform or predict_proba raises for one condition, that
\* condition's score is 0, every other condition keeps the score its model
\* gave, and the map that is returned has all three conditions.
C15_FailedConditionScoresZero ==
    (result.op = "calculate_risk_scores" /\ Len(health_data) > 0) =>
        LET features == prepare_features(Last(health_data))
        IN  /\ DOMAIN result.value = Conditions
            /\ \A condition \in Conditions :
                   result.value[condition] =
                       IF result.forest[condition][features] = Fails THEN 0
                       ELSE result.forest[condition][features]

C15_Witness ==
    /\ result.op = "calculate_risk_scores"
    /\ Len(health_data) > 0
    /\ LET features == prepare_features(Last(health_data))
       IN  /\ result.forest["hypertension"][features] = Fails
           /\ result.value = [pre_diabetes |-> 80, hypertension |-> 0,
                              metabolic_syndrome |-> 20]

EngineOperations ==
    {"calculate_health_score", "detect_trends", "get_health_insights",
     "calculate_risk_scores", "analyze_risk_factors", "check_alerts",
     "get_interventions"}

----------------------------------------------------------------------------
(* Data store: goals and tracked interventions.  A datetime.date is the     *)
(* pair <<"date", day>>, a datetime <<"datetime", day>>, and the string     *)
(* isoformat() makes of either is <<"iso", day>>.                           *)

Date(day) == <<"date", day>>

Datetime(day) == <<"datetime", day>>

\* the keys under which the program stores a date or a datetime
DateKeys == {"target_date", "created_at", "start_date", "last_updated"}

\* isinstance(value, (datetime, pd.Timestamp)) or hasattr(value, 'isoformat')
has_isoformat(dict, key) == key \in DateKeys /\ dict[key][1] \in {"date", "datetime"}

\* goal.copy() with every date and datetime replaced by its isoformat() string
serialise_dict(dict) ==
    [key \in DOMAIN dict |->
        IF has_isoformat(dict, key) THEN <<"iso", dict[key][2]>> ELSE dict[key]]

\* _save_user_goals, _save_active_interventions: the file is rewritten with
\* the whole list; when open() raises it is left alone, when json.dump raises
\* it is left broken
save_json(list, file, io) ==
    IF io = "written" THEN File([i \in 1..Len(list) |-> serialise_dict(list[i])])
    ELSE IF io = "dump_raises" THEN Broken
    ELSE file

MaxGoals == 2

append_goal_replacing(goals, goal) == <<goal>>

\* self.user_goals.append(goal)
append_goal(goals, goal) == Append(goals, goal)

add_user_goal(goal, io) ==
    /\ Len(user_goals) < MaxGoals
    /\ user_goals' = append_goal(user_goals,
                                 [created_at |-> Datetime(wall_clock), status |-> "active"]
                                 @@ goal)
    /\ goals_file' = save_json(user_goals', goals_file, io)
    /\ result' = [op |-> "add_user_goal", value |-> (io = "written")]
    /\ UNCHANGED <<health_data, data_file, active_interventions, interventions_file,
                   health_data_b, intervention_library, wall_clock, form_data, models>>

\* goal_id is the 0-based position in the list
update_user_goal(goal_id, updates, io) ==
    /\ IF goal_id < 0 \/ goal_id >= Len(user_goals)
       THEN /\ result' = [op |-> "update_user_goal", goal_id |-> goal_id, value |-> FALSE]
            /\ UNCHANGED <<user_goals, goals_file>>
       ELSE /\ user_goals' = [user_goals EXCEPT ![goal_id + 1] = updates @@ @]
            /\ goals_file' = save_json(user_goals', goals_file, io)
            /\ result' = [op |-> "update_user_goal", goal_id |-> goal_id,
                          value |-> (io = "written")]
    /\ UNCHANGED <<health_data, data_file, active_interventions, interventions_file,
                   health_data_b, intervention_library, wall_clock, form_data, models>>

MaxTracked == 2

add_intervention_tracking(intervention, io) ==
    /\ Len(active_interventions) < MaxTracked
    /\ active_interventions' =
           Append(active_interventions,
                  [start_date |-> Datetime(wall_clock), status |-> "active",
                   overall_progress |-> 0, notes |-> ""] @@ intervention)
    /\ interventions_file' = save_json(active_interventions', interventions_file, io)
    /\ result' = [op |-> "add_intervention_tracking", value |-> (io = "written")]
    /\ UNCHANGED <<health_data, data_file, user_goals, goals_file, health_data_b,
                   intervention_library, wall_clock, form_data, models>>

\* the position of the first tracked intervention with this title, or 0
first_with_title(interventions, title) ==
    IF \E i \in DOMAIN interventions : interventions[i].title = title
    THEN CHOOSE i \in DOMAIN interventions :
             /\ interventions[i].title = title
             /\ \A j \in 1..(i - 1) : interventions[j].title # title
    ELSE 0

update_intervention_progress_upserting(interventions, intervention, io) ==
    LET i == first_with_title(interventions, intervention.title)
    IN  /\ active_interventions' =
               IF i = 0 THEN Append(interventions, intervention)
               ELSE [interventions EXCEPT ![i] = intervention]
        /\ interventions_file' = save_json(active_interventions', interventions_file, io)
        /\ result' = [op |-> "update_intervention_progress",
                      title |-> intervention.title, value |-> (io = "written")]

\* interventions: the list as the caller left it
update_intervention_progress(interventions, intervention, io) ==
    LET i == first_with_title(interventions, intervention.title)
    IN  IF i = 0
        THEN /\ active_interventions' = interventions
             /\ result' = [op |-> "update_intervention_progress",
                           title |-> intervention.title, value |-> FALSE]
             /\ UNCHANGED interventions_file
        ELSE /\ active_interventions' = [interventions EXCEPT ![i] = intervention]
             /\ interventions_file' =
                    save_json(active_interventions', interventions_file, io)
             /\ result' = [op |-> "update_intervention_progress",
                           title |-> intervention.title, value |-> (io = "written")]

\* "Save Progress": the form writes into the dict of the list it was given by
\* get_active_interventions (a shallow copy, so the dict is the store's own)
\* and hands that dict to update_intervention_progress
SaveProgress(position, overall_progress, io) ==
    /\ position \in DOMAIN active_interventions
    /\ LET intervention ==
               [overall_progress |-> overall_progress, notes |-> "",
                last_updated |-> Datetime(wall_clock)] @@ active_interventions[position]
       IN  update_intervention_progress(
               [active_interventions EXCEPT ![position] = intervention],
               intervention, io)
    /\ UNCHANGED <<health_data, data_file, user_goals, goals_file, health_data_b,
                   intervention_library, wall_clock, form_data, models>>

\* the wall clock moves on
TickDays == 31

MaxDay == 40

Tick ==
    /\ wall_clock + TickDays <= MaxDay
    /\ wall_clock' = wall_clock + TickDays
    /\ result' = [op |-> "tick"]
    /\ UNCHANGED <<store_vars, intervention_library, form_data, models>>

(* The goal specification: goals are set and updated while a record is      *)
(* added, an engine is called, the clock passes the target dates and the    *)
(* application is started again.                                            *)

\* days from the day a goal is set to its target date
TargetDays == 10

Goals ==
    { [type |-> "weight_loss", current_value |-> 70, target_value |-> 65,
       target_date |-> Date(wall_clock + TargetDays), metric |-> "weight"],
      [type |-> "blood_pressure", target_systolic |-> 120, target_diastolic |-> 80,
       target_date |-> Date(wall_clock + TargetDays), metric |-> "bp"] }

GoalUpdates == {[status |-> "completed"]}

AddUserGoal == \E goal \in Goals, io \in IoOutcomes : add_user_goal(goal, io)

UpdateUserGoal ==
    \E goal_id \in -1..MaxGoals, updates \in GoalUpdates, io \in IoOutcomes :
        update_user_goal(goal_id, updates, io)

GoalRecord == FormRecord(1, 220, 120, 80, 70, 100, 180, 55, 150, 150, 75, 2, 0)

AddGoalRecord ==
    /\ Len(health_data) = 0
    /\ add_health_data(GoalRecord, "written")

NextGoals ==
    \/ AddUserGoal
    \/ UpdateUserGoal
    \/ AddGoalRecord
    \/ CallHealthScore
    \/ Tick
    \/ Restart

SpecGoals == Init /\ [][NextGoals]_vars

MutatingOperations ==
    {"add_health_data", "update_health_data", "delete_health_data", "import_data",
     "add_user_goal", "update_user_goal", "add_intervention_tracking",
     "update_intervention_progress"}

\* C17: a HealthDataManager constructed right after a mutation that returned
\* True loads a history, a goal list and an intervention list equal to the
\* collections of the manager that wrote them.
C17_ReloadEqualsMemory ==
    (result.op \in MutatingOperations /\ result.value = TRUE) =>
        /\ result.op \in {"add_health_data", "update_health_data",
                          "delete_health_data", "import_data"}
               => load_health_data(data_file) = health_data
        /\ result.op \in {"add_user_goal", "update_user_goal"}
               => load_json(goals_file) = user_goals
        /\ result.op \in {"add_intervention_tracking", "update_intervention_progress"}
               => load_json(interventions_file) = active_interventions

\* C18: a goal that is in the list stays in it, at its position, and none of
\* its fields changes in a step other than update_user_goal: not when a
\* record is added, an engine is called or the clock passes its target date.
\* A new manager (__init__) that loads the file the list was last saved to
\* still holds every goal, with its status.
C18_GoalsKept ==
    [][/\ result'.op # "__init__" =>
              /\ Len(user_goals') >= Len(user_goals)
              /\ \A i \in DOMAIN user_goals :
                     user_goals'[i] # user_goals[i] => result'.op = "update_user_goal"
       /\ (result'.op = "__init__" /\ goals_file = save_json(user_goals, goals_file, "written")) =>
              /\ Len(user_goals') = Len(user_goals)
              /\ \A i \in DOMAIN user_goals :
                     user_goals'[i].status = user_goals[i].status]_vars

\* a goal set on day 2 for day 12 is still active on day 33, after a record
\* was added, with a second goal behind it
C18_Witness ==
    /\ Len(user_goals) = 2
    /\ user_goals[1].status = "active"
    /\ user_goals[1].created_at[2] = Today
    /\ user_goals[1].target_date[2] < wall_clock
    /\ Len(health_data) > 0

(* The tracking specification: interventions of a get_interventions result  *)
(* are tracked and their progress is saved.                                 *)

\* what "Start Tracking" passes: entries of a get_interventions result
Trackable ==
    { general_entry(build_intervention_library.dietary_interventions[i])[1] : i \in 1..2 }

ProgressValues == {50}

StartTracking ==
    \E intervention \in Trackable, io \in IoOutcomes :
        add_intervention_tracking(intervention, io)

SaveInterventionProgress ==
    \E position \in 1..MaxTracked, overall_progress \in ProgressValues, io \in IoOutcomes :
        SaveProgress(position, overall_progress, io)

NextTracking ==
    \/ StartTracking
    \/ SaveInterventionProgress
    \/ Tick
    \/ Restart

SpecTracking == Init /\ [][NextTracking]_vars

\* C19: after any sequence of add_intervention_tracking and
\* update_intervention_progress no two active interventions share a title.
C19_TitlesUnique ==
    \A i, j \in DOMAIN active_interventions :
        active_interventions[i].title = active_interventions[j].title => i = j

----------------------------------------------------------------------------
(* Two managers on the same working directory (two browser sessions, each   *)
(* with a HealthDataManager of its own in its session state).               *)

\* the second manager is constructed: it loads what the file holds
ConstructB ==
    /\ health_data_b' = load_health_data(data_file)
    /\ result' = [op |-> "__init__", manager |-> "b"]
    /\ UNCHANGED <<health_data, data_file, tracking_vars, intervention_library,
                   wall_clock, form_data, models>>

\* add_health_data of the second manager; `overwritten' is what the file
\* held when it was opened for writing
add_health_data_b(row, io) ==
    /\ Len(health_data_b) < MaxRecords
    /\ health_data_b' = sort_values_date(Append(health_data_b, row))
    /\ data_file' = save_health_data(health_data_b', data_file, io)
    /\ result' = [op |-> "add_health_data", manager |-> "b", value |-> (io = "written"),
                  overwritten |-> data_file]
    /\ UNCHANGED <<health_data, tracking_vars, intervention_library, wall_clock,
                   form_data, models>>

ManagerRecords == {row \in MainRecords : row.glucose_fasting = 100}

AddRecordA == \E row \in ManagerRecords, io \in IoOutcomes : add_health_data(row, io)

AddRecordB == \E row \in ManagerRecords, io \in IoOutcomes : add_health_data_b(row, io)

NextTwoManagers ==
    \/ AddRecordA
    \/ AddRecordB
    \/ ConstructB

SpecTwoManagers == Init /\ [][NextTwoManagers]_vars

WrittenByB == result.op = "add_health_data" /\ "manager" \in DOMAIN result

\* C20: a successful add_health_data of a manager overwrites the file with
\* the history that manager holds, whatever another manager wrote to it in
\* the meantime: a record the other manager added, and the writer never
\* loaded, is not in the file any more, and the writer is returned True.
C20_LastWriterWins ==
    (WrittenByB /\ result.value = TRUE) =>
        /\ load_health_data(data_file) = health_data_b
        /\ \A i \in DOMAIN health_data :
               (\A j \in DOMAIN health_data_b : health_data_b[j] # health_data[i])
                   => \A k \in DOMAIN data_file.content :
                          data_file.content[k] # serialise(health_data[i])

\* both managers loaded the absent file; the first added the record of day 1
\* and wrote it, the second then added the record of day 2: the file holds
\* the record of day 2 only
C20_Witness ==
    /\ WrittenByB
    /\ result.value = TRUE
    /\ Len(health_data) = 1 /\ health_data[1].date = 1
    /\ Len(health_data_b) = 1 /\ health_data_b[1].date = 2
    /\ result.overwritten = File(<<serialise(health_data[1])>>)
    /\ data_file = File(<<serialise(health_data_b[1])>>)

----------------------------------------------------------------------------
(* Inputs of the trend specification: histories of up to MaxTrendLen        *)
(* records of two kinds, dated in ascending or in descending order.         *)

MaxTrendLen == 10

\* glucose, cholesterol and the blood pressures rise from the first kind to
\* the second, bmi falls
TrendRecords ==
    { FormRecord(0, 250, 120, 80, 70, 100, 180, 55, 150, 150, 75, 2, 0),
      FormRecord(0, 220, 130, 85, 70, 110, 200, 55, 150, 150, 75, 2, 0) }

Ascending(rows) == [i \in 1..Len(rows) |-> [rows[i] EXCEPT !.date = i]]

Descending(rows) == [i \in 1..Len(rows) |-> [rows[i] EXCEPT !.date = Len(rows) + 1 - i]]

TrendHistories ==
    { Ascending(rows) : rows \in SeqsUpTo(TrendRecords, MaxTrendLen) }
    \cup { Descending(rows) : rows \in SeqsUpTo(TrendRecords, MaxTrendLen) }

InitTrends ==
    /\ health_data \in TrendHistories
    /\ data_file = NoFile
    /\ user_goals = <<>>
    /\ goals_file = NoFile
    /\ active_interventions = <<>>
    /\ interventions_file = NoFile
    /\ health_data_b = <<>>
    /\ intervention_library = build_intervention_library
    /\ form_data = EmptyDict
    /\ models \in fitted_models(NoVectors, {})
    /\ wall_clock = LatestDate
    /\ result = NoResult

NextTrends == CallDetectTrends

SpecTrends == InitTrends /\ [][NextTrends]_vars

\* the values of a metric in date order (the dates of a history are distinct)
InDateOrder(data, metric) ==
    [i \in 1..Len(data) |->
        (CHOOSE row \in Range(data) :
             Cardinality({other \in Range(data) : other.date < row.date}) = i - 1)[metric]]

\* the sum of the values at the positions from..to
SumFromTo(values, from, to) == SumSeq(SubSeq(values, from, to))

\* C21: for n >= 2 records and each of the five tracked metrics,
\* detect_trends compares, in date order, the mean of the last 5 values with
\* the mean of the first 5 values when n >= 10 and with the mean of all
\* values when n < 10; direction is "increasing" exactly when the recent
\* mean is strictly greater and "decreasing" otherwise; magnitude is
\* |recent - historical| / historical * 100.
C21_TrendMeans ==
    (result.op = "detect_trends" /\ Len(health_data) >= 2) =>
        \A metric \in TrendMetrics :
            LET n          == Len(health_data)
                values     == InDateOrder(health_data, metric)
                k          == Min2(5, n)
                recent     == SumFromTo(values, n - k + 1, n)
                historical == IF n >= 10 THEN SumFromTo(values, 1, 5)
                              ELSE SumFromTo(values, 1, n)
                h          == IF n >= 10 THEN 5 ELSE n
                trend      == result.value[metric]
            IN  /\ metric \in DOMAIN result.value
                /\ trend.recent_avg[1] * k = recent * trend.recent_avg[2]
                /\ trend.historical_avg[1] * h = historical * trend.historical_avg[2]
                /\ trend.direction = "increasing" <=> recent * h > historical * k
                /\ trend.direction \in {"increasing", "decreasing"}
                /\ trend.magnitude[1] * (historical * k)
                       = Abs(recent * h - historical * k) * 100 * trend.magnitude[2]

\* seven records, 100 six times and then 110: the last five average 102, all
\* seven 101 3/7, so glucose is "increasing" although the first five equal
\* the first five of the last five
C21_Witness ==
    /\ result.op = "detect_trends"
    /\ Len(health_data) = 7
    /\ health_data[7].date = 7
    /\ \A i \in 1..6 : health_data[i].glucose_fasting = 100
    /\ health_data[7].glucose_fasting = 110
    /\ result.value["glucose_fasting"].direction = "increasing"
    /\ result.value["glucose_fasting"].historical_avg = <<710, 7>>
    /\ result.value["bmi"].direction = "decreasing"

----------------------------------------------------------------------------
(* Inputs of the trend-alert specification: histories of up to              *)
(* MaxTrendAlertLen records of three kinds, evenly spaced, so that all, the *)
(* last two, or only the last one are dated within the 30-day window.       *)

MaxTrendAlertLen == 6

TrendGapValues == {5, 15, 40}

\* from the first kind to the second bmi rises by 2.0, systolic_bp by 20,
\* glucose by 40 and cholesterol by 40; from the first to the third they rise
\* by 1.9, 19, 29 and 50
TrendAlertRecords ==
    { FormRecord(0, 220, 110, 70, 70, 90, 180, 55, 150, 300, 75, 2, 0),
      FormRecord(0, 240, 130, 70, 70, 130, 220, 55, 150, 0, 75, 2, 0),
      FormRecord(0, 239, 129, 70, 70, 119, 230, 55, 150, 100, 75, 2, 0) }

TrendAlertHistories ==
    { Dated(rows, gap) :
        rows \in SeqsUpTo(TrendAlertRecords, MaxTrendAlertLen),
        gap \in TrendGapValues }

InitTrendAlerts ==
    /\ health_data \in TrendAlertHistories
    /\ data_file = NoFile
    /\ user_goals = <<>>
    /\ goals_file = NoFile
    /\ active_interventions = <<>>
    /\ interventions_file = NoFile
    /\ health_data_b = <<>>
    /\ intervention_library = build_intervention_library
    /\ form_data = EmptyDict
    /\ models \in fitted_models(NoVectors, {})
    /\ wall_clock = LatestDate
    /\ result = NoResult

NextTrendAlerts == CallCheckAlerts

SpecTrendAlerts == InitTrendAlerts /\ [][NextTrendAlerts]_vars

ClaimedRapidIncreaseTable ==
    { <<"bmi", 20>>, <<"systolic_bp", 20>>, <<"glucose_fasting", 30>>,
      <<"total_cholesterol", 50>> }

HasTrendAlert(alerts, severity, metric) ==
    \E i \in DOMAIN alerts :
        /\ alerts[i].severity = severity
        /\ alerts[i].metric = metric
        /\ "change" \in DOMAIN alerts[i]

\* the positions of the records dated within the 30 days before the latest
\* record's date
Window(data) ==
    {i \in DOMAIN data : \A j \in DOMAIN data : data[i].date > data[j].date - 30}

FirstOf(positions) == CHOOSE i \in positions : \A j \in positions : i <= j

LastOf(positions) == CHOOSE i \in positions : \A j \in positions : i >= j

----------------------------------------------------------------------------
(* Inputs of the recommendation specification: the last record below, on    *)
(* and beyond each of the four triggers.                                    *)

RecommendationRecords ==
    { FormRecord(2, bmi, sys, 80, 70, glu, 180, 55, 150, ex, 75, 2, 0) :
        bmi \in {220, 300, 310}, sys \in {120, 130, 135}, glu \in {90, 100, 110},
        ex \in {100, 150, 200} }

InitRecommendations ==
    /\ health_data \in { <<row>> : row \in RecommendationRecords }
    /\ data_file = NoFile
    /\ user_goals = <<>>
    /\ goals_file = NoFile
    /\ active_interventions = <<>>
    /\ interventions_file = NoFile
    /\ health_data_b = <<>>
    /\ intervention_library = build_intervention_library
    /\ form_data = EmptyDict
    /\ models \in fitted_models(NoVectors, {})
    /\ wall_clock = LatestDate
    /\ result = NoResult

NextRecommendations == CallInterventions(MainRiskValues)

SpecRecommendations == InitRecommendations /\ [][NextRecommendations]_vars

\* title |-> category of the four synthesized entries, as claimed
ClaimedSynthesized ==
    [calorie  |-> <<"Calorie Restriction for Weight Loss", "dietary_interventions">>,
     sodium   |-> <<"Sodium Reduction Protocol", "lifestyle_interventions">>,
     glycemic |-> <<"Glycemic Index Management", "dietary_interventions">>,
     activity |-> <<"Physical Activity Increase Plan", "exercise_interventions">>]

SynthesizedTitles == {ClaimedSynthesized[k][1] : k \in DOMAIN ClaimedSynthesized}

\* how many entries of the category have the title
CountTitle(entries, title) == Cardinality({i \in DOMAIN entries : entries[i].title = title})

Appended(value, kind) ==
    CountTitle(value[ClaimedSynthesized[kind][2]], ClaimedSynthesized[kind][1]) = 1

\* C23: get_interventions appends the calorie-restriction entry (dietary)
\* iff BMI > 30, the sodium-reduction entry (lifestyle) iff systolic_bp >
\* 130, the glycemic-index entry (dietary) iff glucose_fasting > 100 and the
\* activity-increase entry (exercise) iff exercise_minutes_per_week < 150,
\* each once, in its category only and after the catalog entries of the
\* category, whatever the risk scores are.
C23_SynthesizedEntries ==
    (result.op = "get_interventions" /\ Len(health_data) > 0) =>
        LET last  == Last(health_data)
            value == result.value
        IN  /\ Appended(value, "calorie") <=> last.bmi > 300
            /\ Appended(value, "sodium") <=> last.systolic_bp > 130
            /\ Appended(value, "glycemic") <=> last.glucose_fasting > 100
            /\ Appended(value, "activity") <=> last.exercise_minutes_per_week < 150
            /\ \A category \in DOMAIN value, kind \in DOMAIN ClaimedSynthesized :
                   /\ CountTitle(value[category], ClaimedSynthesized[kind][1]) <= 1
                   /\ category # ClaimedSynthesized[kind][2] =>
                          CountTitle(value[category], ClaimedSynthesized[kind][1]) = 0
            /\ \A category \in DOMAIN value :
                   \A i, j \in DOMAIN value[category] :
                       (i < j /\ value[category][i].title \in SynthesizedTitles)
                           => value[category][j].title \in SynthesizedTitles

\* all four triggers hold and every risk score is low: the dietary list ends
\* with the calorie and the glycemic entry behind a catalog entry
C23_Witness ==
    /\ result.op = "get_interventions"
    /\ Len(health_data) > 0
    /\ \A condition \in Conditions : result.risk_scores[condition] = 20
    /\ LET dietary == result.value.dietary_interventions
       IN  /\ Len(dietary) >= 3
           /\ dietary[1].title \notin SynthesizedTitles
           /\ dietary[Len(dietary) - 1].title = "Calorie Restriction for Weight Loss"
           /\ dietary[Len(dietary)].title = "Glycemic Index Management"
    /\ Appended(result.value, "sodium")
    /\ Appended(result.value, "activity")

----------------------------------------------------------------------------
(* InterventionEngine.get_intervention_progress_template                    *)

category_metrics ==
    [dietary_interventions    |-> <<"weight", "waist_circumference", "glucose_fasting",
                                    "cholesterol">>,
     exercise_interventions   |-> <<"exercise_minutes_per_week", "resting_heart_rate",
                                    "weight", "bmi">>,
     lifestyle_interventions  |-> <<"sleep_hours", "stress_level", "systolic_bp",
                                    "diastolic_bp">>,
     monitoring_interventions |-> <<"measurement_frequency", "target_range_adherence">>]

\* `intervention in interventions' compares the dict with every entry of the
\* list by ==; the categories are walked in the order of `categories'
get_progress_metrics(intervention) ==
    LET holding == SelectSeq(categories,
                       LAMBDA category :
                           \E k \in DOMAIN intervention_library[category] :
                               intervention_library[category][k] = intervention)
    IN  IF holding # <<>> THEN category_metrics[holding[1]] ELSE <<"weight", "bmi">>

get_weekly_goals(intervention) ==
    IF "action_steps" \in DOMAIN intervention
    THEN [i \in 1..Min2(4, Len(intervention.action_steps)) |->
             [week |-> i, goal |-> intervention.action_steps[i], completed |-> FALSE]]
    ELSE <<>>

get_intervention_progress_template(intervention) ==
    [intervention_title |-> intervention.title,
     start_date         |-> Datetime(wall_clock),
     target_duration    |-> Get(intervention, "duration", "Ongoing"),
     progress_metrics   |-> get_progress_metrics(intervention),
     weekly_goals       |-> get_weekly_goals(intervention),
     completion_status  |-> "Not Started"]

\* the template is asked for an entry of the catalog or for an entry of the
\* get_interventions result at hand
TemplateInputs ==
    Range(Flatten([i \in 1..Len(categories) |-> intervention_library[categories[i]]]))
    \cup (IF result.op = "get_interventions" /\ Len(health_data) > 0
          THEN Range(Flatten([i \in 1..Len(categories) |-> result.value[categories[i]]]))
          ELSE {})

CallProgressTemplate ==
    \E intervention \in TemplateInputs :
        /\ result' = [op |-> "get_intervention_progress_template",
                      intervention |-> intervention,
                      value |-> get_intervention_progress_template(intervention)]
        /\ UNCHANGED <<store_vars, intervention_library, wall_clock, form_data, models>>

NextTemplate ==
    \/ CallInterventions(MainRiskValues)
    \/ CallProgressTemplate

SpecTemplate == InitInterventions /\ [][NextTemplate]_vars

\* the categories that hold a catalog entry with the title
CategoriesOf(title) ==
    {category \in DOMAIN build_intervention_library :
        \E k \in DOMAIN build_intervention_library[category] :
            build_intervention_library[category][k].title = title}

\* C24: for an entry that belongs to a catalog category, the annotated clone
\* get_interventions returns of it included, the template has the
\* progress-metric list of that category, not the fallback [weight, bmi],
\* and the first min(4, number of action steps) action steps in order as
\* weekly goals numbered from 1 with completed = False, and the completion
\* status "Not Started".
C24_TemplateOfCategory ==
    result.op = "get_intervention_progress_template" =>
        \A category \in CategoriesOf(result.intervention.title) :
            LET steps == result.intervention.action_steps
                goals == result.value.weekly_goals
            IN  /\ result.value.progress_metrics = category_metrics[category]
                /\ Len(goals) = Min2(4, Len(steps))
                /\ \A i \in DOMAIN goals :
                       goals[i] = [week |-> i, goal |-> steps[i], completed |-> FALSE]
                /\ result.value.completion_status = "Not Started"

----------------------------------------------------------------------------
(* Risk scores as a function of the last record and the fitted models       *)

\* a record of a history that has no column of the name (an imported file
\* need not hold every column)
Without(row, column) == [key \in DOMAIN row \ {column} |-> row[key]]

RiskFullRecords ==
    { FormRecord(d, 220, 120, 80, 70, glu, 180, 55, 150, 150, 75, 2, 0) :
        d \in {1, 2}, glu \in {100, 110} }

RiskShortRecords == {Without(row, "sleep_hours") : row \in RiskFullRecords}

RiskHistoriesOver(records) ==
    {<<>>}
    \cup {<<row>> : row \in records}
    \cup {<<a, b>> : a \in {r \in records : r.date = 1},
                     b \in {r \in records : r.date = 2}}

\* every record of a history has the columns of the frame
RiskHistories == RiskHistoriesOver(RiskFullRecords) \cup RiskHistoriesOver(RiskShortRecords)

RiskVectors == {prepare_features(row) : row \in RiskFullRecords \cup RiskShortRecords}

RiskAnswers == {20, 80, Fails}

\* risk models that answer by the feature vector
RiskModels ==
    { [condition \in Conditions |-> answer] : answer \in [RiskVectors -> RiskAnswers] }

InitRisk ==
    /\ health_data \in RiskHistories
    /\ data_file = NoFile
    /\ user_goals = <<>>
    /\ goals_file = NoFile
    /\ active_interventions = <<>>
    /\ interventions_file = NoFile
    /\ health_data_b = <<>>
    /\ intervention_library = build_intervention_library
    /\ form_data = EmptyDict
    /\ models \in RiskModels
    /\ wall_clock = Today
    /\ result = NoResult

NextRisk ==
    \/ CallRiskScores
    \/ DeleteHealthData

SpecRisk == InitRisk /\ [][NextRisk]_vars

\* the feature vector of a record, a missing feature taking its default
FeaturesOf(row) ==
    [i \in 1..Len(feature_columns) |->
        IF feature_columns[i] \in DOMAIN row THEN row[feature_columns[i]]
        ELSE feature_defaults[feature_columns[i]]]

\* what the fitted models make of a record
ScoresOf(row, fitted) ==
    [condition \in Conditions |->
        IF fitted[condition][FeaturesOf(row)] = Fails THEN 0
        ELSE fitted[condition][FeaturesOf(row)]]

\* C25: calculate_risk_scores depends only on the last record and on the
\* models fitted at construction: no step changes the models, the scores of
\* a non-empty history are what the models make of its last record with the
\* defaults for missing features, every history with the same last record
\* gets the same scores, a repeated call returns them again, and every score
\* lies in [0, 1] (0..100 hundredths).
C25_ScoresOfLastRecord ==
    [][ /\ models' = models
        /\ (result'.op = "calculate_risk_scores" /\ Len(result'.data) > 0) =>
               LET last == result'.data[Len(result'.data)]
               IN  /\ result'.value = ScoresOf(last, models)
                   /\ \A condition \in Conditions : result'.value[condition] \in 0..100
                   /\ \A other \in RiskHistories :
                          (Len(other) > 0 /\ other[Len(other)] = last) =>
                              calculate_risk_scores(other, models') = result'.value
                   /\ calculate_risk_scores(result'.data, models') = result'.value ]_vars

C25_Witness ==
    /\ result.op = "calculate_risk_scores"
    /\ Len(result.data) = 2
    /\ "sleep_hours" \notin DOMAIN result.data[2]
    /\ result.forest["pre_diabetes"][FeaturesOf(result.data[1])] = 20
    /\ result.value = [pre_diabetes |-> 80, hypertension |-> 80, metabolic_syndrome |-> 80]

----------------------------------------------------------------------------
(* The tiers of the value alerts, checked in SpecAlerts                     *)

\* metric, critical, warning and info threshold as the claim nests them; the
\* resting heart rate has no info threshold
ClaimedTiers ==
    { <<"systolic_bp", 180, 140, 130>>, <<"diastolic_bp", 120, 90, 80>>,
      <<"glucose_fasting", 250, 126, 100>>, <<"total_cholesterol", 300, 240, 200>>,
      <<"bmi", 400, 300, 250>>, <<"resting_heart_rate", 120, 100, Absent>> }

HasValueAlert(alerts, severity, metric, threshold) ==
    \E i \in DOMAIN alerts :
        /\ "value" \in DOMAIN alerts[i]
        /\ alerts[i].severity = severity
        /\ alerts[i].metric = metric
        /\ alerts[i].threshold = threshold

ValueAlertsOf(alerts, metric) ==
    {i \in DOMAIN alerts : "value" \in DOMAIN alerts[i] /\ alerts[i].metric = metric}

\* C26: the tiers of the value alerts are checked independently and nothing
\* is deduplicated: a last-record value at or above a metric's critical
\* threshold yields the Critical alert, the Warning alert and, for a metric
\* of the info table, the Info alert of that metric, each with its own
\* threshold, and no metric has more than three value alerts.
C26_TiersNotDeduplicated ==
    (result.op = "check_alerts" /\ Len(health_data) > 0) =>
        /\ \A tier \in ClaimedTiers :
               Last(health_data)[tier[1]] >= tier[2] =>
                   /\ tier[2] >= tier[3]
                   /\ HasValueAlert(result.value, "Critical", tier[1], tier[2])
                   /\ HasValueAlert(result.value, "Warning", tier[1], tier[3])
                   /\ tier[4] # Absent =>
                          /\ tier[3] >= tier[4]
                          /\ HasValueAlert(result.value, "Info", tier[1], tier[4])
                   /\ Cardinality(ValueAlertsOf(result.value, tier[1])) =
                          IF tier[4] # Absent THEN 3 ELSE 2
        /\ \A i \in DOMAIN result.value :
               Cardinality(ValueAlertsOf(result.value, result.value[i].metric)) <= 3

\* systolic_bp = 185 yields three value alerts for systolic_bp, the resting
\* heart rate 120 yields two
C26_Witness ==
    /\ result.op = "check_alerts"
    /\ Len(health_data) > 0
    /\ Last(health_data).systolic_bp = 185
    /\ Last(health_data).resting_heart_rate = 120
    /\ Cardinality(ValueAlertsOf(result.value, "systolic_bp")) = 3
    /\ Cardinality(ValueAlertsOf(result.value, "resting_heart_rate")) = 2

----------------------------------------------------------------------------
(* Failed writes, checked in SpecStore                                      *)

\* C27: add_health_data changes the history before it writes the file: when
\* the write fails it returns False, the file holds what it held before, and
\* the history in memory holds the new record; a delete_health_data that
\* dropped a row and failed to write leaves the file as it was, too.
C27_FailedWriteKeepsFile ==
    [][ /\ (result'.op = "add_health_data" /\ result'.value = FALSE) =>
               /\ Len(health_data') = Len(health_data) + 1
               /\ data_file' = data_file
        /\ (result'.op = "delete_health_data" /\ result'.value = FALSE
                /\ Len(health_data') < Len(health_data)) =>
               data_file' = data_file ]_vars

----------------------------------------------------------------------------
(* Operations of the data store addressed at a row, a goal or a tracked     *)
(* intervention that may not exist.                                         *)

\* an intervention dict as a caller of update_intervention_progress holds it,
\* whether or not an intervention of its title is tracked
ProgressInputs ==
    { [overall_progress |-> 50, notes |-> "", status |-> "active",
       start_date |-> Datetime(Today)] @@ intervention : intervention \in Trackable }

UpdateInterventionProgress ==
    \E intervention \in ProgressInputs, io \in IoOutcomes :
        /\ update_intervention_progress(active_interventions, intervention, io)
        /\ UNCHANGED <<health_data, data_file, user_goals, goals_file, health_data_b,
                       intervention_library, wall_clock, form_data, models>>

\* what a store holds after successful adds: at most one record, one goal
\* and one tracked intervention, each file holding what the memory holds
AddressedRecord == FormRecord(1, 220, 120, 80, 70, 100, 180, 55, 150, 150, 75, 2, 0)

AddressedGoal ==
    [created_at |-> Datetime(Today), status |-> "active", type |-> "weight_loss",
     current_value |-> 70, target_value |-> 65,
     target_date |-> Date(Today + TargetDays), metric |-> "weight"]

AddressedIntervention ==
    [start_date |-> Datetime(Today), status |-> "active", overall_progress |-> 0,
     notes |-> ""] @@ general_entry(build_intervention_library.dietary_interventions[1])[1]

Saved(list, file) == IF list = <<>> THEN NoFile ELSE file

InitAddressed ==
    /\ health_data \in {<<>>, <<AddressedRecord>>}
    /\ data_file = Saved(health_data, save_health_data(health_data, NoFile, "written"))
    /\ user_goals \in {<<>>, <<AddressedGoal>>}
    /\ goals_file = Saved(user_goals, save_json(user_goals, NoFile, "written"))
    /\ active_interventions \in {<<>>, <<AddressedIntervention>>}
    /\ interventions_file =
           Saved(active_interventions, save_json(active_interventions, NoFile, "written"))
    /\ health_data_b = <<>>
    /\ intervention_library = build_intervention_library
    /\ form_data = EmptyDict
    /\ models \in fitted_models(NoVectors, {})
    /\ wall_clock = Today
    /\ result = NoResult

UpdateAddressedRow ==
    \E index \in Indexes, io \in IoOutcomes :
        update_health_data(index, [glucose_fasting |-> 110], io)

NextAddressed ==
    \/ UpdateAddressedRow
    \/ DeleteHealthData
    \/ UpdateUserGoal
    \/ UpdateInterventionProgress

SpecAddressed == InitAddressed /\ [][NextAddressed]_vars

\* C28: update_health_data and delete_health_data with an index below 0 or
\* at or after the length of the history, update_user_goal with a goal id
\* outside the list and update_intervention_progress with a title no tracked
\* intervention has return False and leave the collections in memory and the
\* files as they were.
C28_RejectedWithoutEffect ==
    [][ /\ (result'.op \in {"update_health_data", "delete_health_data"}
                /\ (result'.index < 0 \/ result'.index >= Len(health_data))) =>
               (result'.value = FALSE /\ UNCHANGED store_vars)
        /\ (result'.op = "update_user_goal"
                /\ (result'.goal_id < 0 \/ result'.goal_id >= Len(user_goals))) =>
               (result'.value = FALSE /\ UNCHANGED store_vars)
        /\ (result'.op = "update_intervention_progress"
                /\ \A i \in DOMAIN active_interventions :
                       active_interventions[i].title # result'.title) =>
               (result'.value = FALSE /\ UNCHANGED store_vars) ]_vars

\* an update of the intervention "DASH Diet Implementation" was rejected while
\* another intervention, a goal and a record are held
C28_Witness ==
    /\ result.op = "update_intervention_progress"
    /\ result.value = FALSE
    /\ active_interventions = <<AddressedIntervention>>
    /\ active_interventions[1].title # result.title
    /\ Len(user_goals) = 1
    /\ Len(health_data) = 1
    /\ interventions_file = File(<<serialise_dict(AddressedIntervention)>>)

----------------------------------------------------------------------------
(* Import and add of records that are already stored                        *)

ImportedBatches == {<<row>> : row \in ManagerRecords} \cup {<<a, b>> : a, b \in ManagerRecords}

ImportRecords ==
    \E rows \in ImportedBatches, format \in Formats, io \in IoOutcomes :
        import_data(rows, format, io)

NextImport ==
    \/ AddRecordA
    \/ ImportRecords

SpecImport == Init /\ [][NextImport]_vars

\* how often a record is in a history
Copies(data, row) == Cardinality({i \in DOMAIN data : data[i] = row})

Imported == result'.op = "import_data" /\ result'.format \in {"csv", "json"}

\* C29: import_data leaves a history that holds every record of the old
\* history and of the imported ones exactly once, in ascending order of date,
\* so that identical records stored by add_health_data are reduced to one;
\* importing the same records again right away leaves the history as it is;
\* add_health_data keeps every copy and adds one, so that adding an identical
\* record twice leaves both.
C29_ImportIdempotent ==
    [][ /\ Imported =>
               /\ \A i \in DOMAIN health_data' :
                      Copies(health_data', health_data'[i]) = 1
               /\ Range(health_data') = Range(health_data) \cup Range(result'.rows)
               /\ IsAscending(health_data')
        /\ (Imported /\ result.op = "import_data" /\ result.format \in {"csv", "json"}
                /\ result'.rows = result.rows) =>
               health_data' = health_data
        /\ result'.op = "add_health_data" =>
               \E k \in DOMAIN health_data' :
                   \A i \in DOMAIN health_data' :
                       Copies(health_data', health_data'[i]) =
                           Copies(health_data, health_data'[i])
                           + (IF health_data'[i] = health_data'[k] THEN 1 ELSE 0) ]_vars

\* a record was added twice, both copies were kept, and an import of the same
\* record has left one
C29_Witness ==
    /\ result.op = "import_data"
    /\ result.format = "csv"
    /\ Len(result.before) = 2
    /\ result.before[1] = result.before[2]
    /\ result.rows = <<result.before[1]>>
    /\ health_data = result.rows

----------------------------------------------------------------------------
(* What a caller can reach through the values the getters return            *)

\* get_all_data returns health_data.copy(): an assignment into the returned
\* frame leaves the frame of the store as it is
store_after_frame_edit(data, edited) == data

store_after_entry_edit_of_deep_copy(list, position, entry) == list

\* get_user_goals and get_active_interventions return list.copy(): a new list
\* of the same dicts, so an assignment into the dict at a position of the
\* returned list is an assignment into the dict of the store
store_after_entry_edit(list, position, entry) == [list EXCEPT ![position] = entry]

\* a caller of get_all_data assigns into a row of the frame it got
CallerEditsFrame ==
    \E index \in DOMAIN health_data, changes \in Changes :
        LET returned == get_all_data(health_data)
            edited   == set_row(returned, index - 1, changes)
        IN  /\ health_data' = store_after_frame_edit(health_data, edited)
            /\ result' = [op |-> "get_all_data", value |-> edited]
            /\ UNCHANGED <<data_file, tracking_vars, health_data_b, intervention_library,
                           wall_clock, form_data, models>>

\* a caller of get_user_goals assigns into a goal of the list it got
CallerEditsGoal ==
    \E position \in DOMAIN user_goals, updates \in GoalUpdates :
        LET edited == updates @@ user_goals[position]
        IN  /\ user_goals' = store_after_entry_edit(user_goals, position, edited)
            /\ result' = [op |-> "get_user_goals", position |-> position, value |-> edited]
            /\ UNCHANGED <<health_data, data_file, goals_file, active_interventions,
                           interventions_file, health_data_b, intervention_library,
                           wall_clock, form_data, models>>

\* the weeks whose checkbox is ticked when the form is rendered
CheckedWeeks == {{}, {1}, {1, 2}}

\* _render_intervention_update_form on an entry of the list that
\* get_active_interventions returned: every weekly goal takes the state of its
\* checkbox; an entry without weekly goals raises KeyError before anything is
\* assigned.  "Save Progress" is not pressed.
RenderUpdateForm ==
    \E position \in DOMAIN active_interventions, checked \in CheckedWeeks :
        LET intervention == active_interventions[position]
        IN  /\ IF "weekly_goals" \notin DOMAIN intervention
               THEN /\ result' = [op |-> "_render_intervention_update_form",
                                  position |-> position, checked |-> checked,
                                  raised |-> "KeyError"]
                    /\ UNCHANGED active_interventions
               ELSE LET goals == intervention.weekly_goals
                        edited ==
                            [intervention EXCEPT !.weekly_goals =
                                [k \in DOMAIN goals |->
                                    [goals[k] EXCEPT !.completed = (goals[k].week \in checked)]]]
                    IN  /\ active_interventions' =
                               store_after_entry_edit(active_interventions, position, edited)
                        /\ result' = [op |-> "_render_intervention_update_form",
                                      position |-> position, checked |-> checked,
                                      raised |-> "none"]
            /\ UNCHANGED <<health_data, data_file, user_goals, goals_file,
                           interventions_file, health_data_b, intervention_library,
                           wall_clock, form_data, models>>

\* a tracked intervention that carries weekly goals
WithWeeklyGoals(intervention) ==
    [weekly_goals |-> get_weekly_goals(intervention)] @@ intervention

ReturnedInterventions ==
    {<<>>, <<AddressedIntervention>>, <<WithWeeklyGoals(AddressedIntervention)>>,
     <<AddressedIntervention, WithWeeklyGoals(AddressedIntervention)>>}

InitReturned ==
    /\ health_data \in {<<>>, <<AddressedRecord>>, <<AddressedRecord, AddressedRecord>>}
    /\ data_file = Saved(health_data, save_health_data(health_data, NoFile, "written"))
    /\ user_goals \in {<<>>, <<AddressedGoal>>}
    /\ goals_file = Saved(user_goals, save_json(user_goals, NoFile, "written"))
    /\ active_interventions \in ReturnedInterventions
    /\ interventions_file =
           Saved(active_interventions, save_json(active_interventions, NoFile, "written"))
    /\ health_data_b = <<>>
    /\ intervention_library = build_intervention_library
    /\ form_data = EmptyDict
    /\ models \in fitted_models(NoVectors, {})
    /\ wall_clock = Today
    /\ result = NoResult

NextReturned ==
    \/ CallerEditsFrame
    \/ CallerEditsGoal
    \/ RenderUpdateForm
    \/ Restart

SpecReturned == InitReturned /\ [][NextReturned]_vars

====
